---- MODULE Spec2Model ----
(***************************************************************************)
(* State-machine model of the genologics LIMS client (lims.py,             *)
(* entities.py): the Lims identity map, lazily loaded Entity handles, the  *)
(* attribute descriptors and the UDF dictionary.                           *)
(***************************************************************************)
EXTENDS Integers, Sequences, FiniteSets, TLC

VARIABLES
    cache,      \* Lims.cache: uri -> the Entity object registered under it
                \* (its index in objects[uri]; 0 when the uri is not a key)
    objects,    \* the Entity objects allocated with each uri, in allocation
                \* order: [kind, root]
    desc,       \* per descriptor instance: the UdfDictionary kept in .value
    lastOp      \* the call made last: what it returned or raised, and
                \* the HTTP requests it sent

vars == <<cache, objects, desc, lastOp>>

(***************************************************************************)
(* Bounds of the model.                                                    *)
(***************************************************************************)
MaxHandles == 2     \* Entity objects allocated

(***************************************************************************)
(* Python values.  k is the runtime type; n carries the number of an int   *)
(* or bool, the integral part of a float and the ordinal yyyymmdd of a     *)
(* date; s carries a string and the fractional digits of a float.          *)
(***************************************************************************)
PyNone      == [k |-> "none",   n |-> 0, s |-> ""]
PyStr(s)    == [k |-> "str",    n |-> 0, s |-> s]
PyInt(n)    == [k |-> "int",    n |-> n, s |-> ""]
PyFloat(n, frac) == [k |-> "float", n |-> n, s |-> frac]
PyBool(b)   == [k |-> "bool",   n |-> IF b THEN 1 ELSE 0, s |-> ""]
PyDate(y, m, d) == [k |-> "date", n |-> y * 10000 + m * 100 + d, s |-> ""]
PyObject    == [k |-> "object", n |-> 0, s |-> ""]

\* isinstance(value, basestring)
IsBasestring(v) == v.k = "str"
\* isinstance(value, (int, float)): bool is a subclass of int
IsIntOrFloat(v) == v.k \in {"int", "float", "bool"}
\* isinstance(value, bool)
IsBool(v) == v.k = "bool"
\* isinstance(value, datetime.date)
IsDate(v) == v.k = "date"

Pad2(n) == IF n < 10 THEN "0" \o ToString(n) ELSE ToString(n)

\* str(value) for the values the UDF code passes to it
PyStrOf(v) ==
    CASE v.k = "int"   -> ToString(v.n)
      [] v.k = "float" -> ToString(v.n) \o "." \o v.s
      [] v.k = "bool"  -> IF v.n = 1 THEN "True" ELSE "False"
      [] v.k = "date"  -> ToString(v.n \div 10000) \o "-"
                          \o Pad2((v.n \div 100) % 100) \o "-" \o Pad2(v.n % 100)
      [] v.k = "str"   -> v.s
      [] v.k = "none"  -> "None"
      [] OTHER         -> "<object>"

\* strings that contain a newline character
NewlineStrings == {"multi\nline"}
HasNewline(s) == s \in NewlineStrings

(***************************************************************************)
(* Lims.get_uri and the kind registry.                                     *)
(***************************************************************************)
BaseUri == "https://lims/"
VERSION == "v1"

GetUri(path, id) == BaseUri \o "api" \o "/" \o VERSION \o "/" \o path \o "/" \o id

Kinds == {"Sample", "Artifact", "Container", "Project", "Process", "Lab"}
ResourcePath == [Sample |-> "samples", Artifact |-> "artifacts",
                 Container |-> "containers", Project |-> "projects",
                 Process |-> "processes", Lab |-> "labs"]
Ids == {"1", "2"}
\* the uris of the resources: two samples, two artifacts, two containers,
\* two labs, one project, one process
URIs == {GetUri(ResourcePath[k], i) :
            k \in {"Sample", "Artifact", "Container", "Lab"}, i \in Ids}
            \cup {GetUri(ResourcePath["Project"], "1"),
                  GetUri(ResourcePath["Process"], "1")}

\* the kind whose resource path a uri is under
KindOfUri == [u \in URIs |->
                 CHOOSE k \in Kinds : \E i \in Ids : u = GetUri(ResourcePath[k], i)]

\* the scalar descriptors of each kind: tag -> descriptor class
StringTags  == [Sample |-> {"name"}, Artifact |-> {"name"},
                Container |-> {"name"}, Project |-> {"name"}, Process |-> {},
                Lab |-> {"name"}]
IntegerTags == [Sample |-> {}, Artifact |-> {},
                Container |-> {"occupied-wells"}, Project |-> {}, Process |-> {},
                Lab |-> {}]
BooleanTags == [Sample |-> {}, Artifact |-> {"working-flag"},
                Container |-> {}, Project |-> {}, Process |-> {}, Lab |-> {}]
ScalarTags  == {"name", "occupied-wells", "working-flag"}
\* the EntityDescriptor (Sample.artifact) and EntityListDescriptor
\* (Artifact.samples) of each kind: tag, klass, and whether it is a list
RefDescriptor ==
    [Sample   |-> [tag |-> "artifact", klass |-> "Artifact", many |-> FALSE],
     Artifact |-> [tag |-> "sample",   klass |-> "Sample",   many |-> TRUE]]
\* klass._TAG, or klass.__name__.lower()
ListTag == [Sample |-> "sample", Artifact |-> "artifact",
            Container |-> "container", Project |-> "project",
            Process |-> "process", Lab |-> "lab"]
\* kinds that declare udt = UdtDictionaryDescriptor()
UdtKinds    == {"Sample", "Container", "Project", "Process", "Lab"}
\* the descriptor instances that keep the value of their attribute in
\* self.value: UdfDictionaryDescriptor / UdtDictionaryDescriptor,
\* PlacementDictionaryDescriptor (Container.placements) and
\* InputOutputMapList (Process.input_output_maps); one per declaring class
\* and attribute
Descriptors == {<<k, "udf">> : k \in Kinds} \cup {<<k, "udt">> : k \in UdtKinds}
                   \cup {<<"Container", "placements">>,
                         <<"Process", "input_output_maps">>}
\* a descriptor whose attribute value is not set
NoDict      == [set |-> FALSE]

(***************************************************************************)
(* XML documents.  A document as the server sends it lists its children:   *)
(* the scalar elements (tag -> the texts of the elements with that tag),   *)
(* the elements carrying a uri attribute (references, placements), the     *)
(* udf:field children of the root and the udf:type element with its own    *)
(* udf:field children.                                                     *)
(***************************************************************************)
Field(name, type, text) == [name |-> name, type |-> type, text |-> text]
Ref(tag, uri, value)    == [tag |-> tag, uri |-> uri, value |-> value]

NoScalars == [t \in ScalarTags |-> <<>>]

Doc(scalars, refs, fields, udt) ==
    [scalars |-> scalars, refs |-> refs, fields |-> fields, udt |-> udt]

SampleUri(i)   == GetUri("samples", i)
ArtifactUri(i) == GetUri("artifacts", i)

DocPlain ==
    Doc([NoScalars EXCEPT !["name"] = <<"n1">>], <<>>, <<>>, <<>>)
DocRich ==
    Doc(NoScalars,
        <<Ref("artifact", ArtifactUri("1"), ""),
          Ref("sample", SampleUri("2"), ""),
          Ref("sample", SampleUri("1"), ""),
          Ref("placement", ArtifactUri("2"), "A:1"),
          Ref("placement", ArtifactUri("1"), "B:1")>>,
        <<Field("f1", "Numeric", "42")>>,
        <<[name |-> "T", fields |-> <<Field("f2", "String", "hello")>>]>>)

\* the documents the server answers a GET or a batch retrieve with
Docs == {DocPlain, DocRich}

\* Entity.root = None
NoTree == [loaded |-> FALSE]

\* ElementTree.fromstring: the parsed tree; uri is the uri attribute of its
\* root element
ParseDoc(doc, uri) ==
    [loaded  |-> TRUE,
     uri     |-> uri,
     scalars |-> doc.scalars,
     refs    |-> doc.refs,
     fields  |-> doc.fields,
     udt     |-> doc.udt]

(***************************************************************************)
(* Lims.tostring: the serialized document, as the list of its elements in  *)
(* document order, each with its tag, attributes and text.                 *)
(***************************************************************************)
Tok(tag, name, type, uri, text) ==
    [tag |-> tag, name |-> name, type |-> type, uri |-> uri, text |-> text]

ScalarOrder == <<"name", "occupied-wells", "working-flag">>

RECURSIVE ScalarToks(_, _)
ScalarToks(scalars, i) ==
    IF i > Len(ScalarOrder) THEN <<>>
    ELSE [j \in 1..Len(scalars[ScalarOrder[i]]) |->
             Tok(ScalarOrder[i], "", "", "", scalars[ScalarOrder[i]][j])]
         \o ScalarToks(scalars, i + 1)

FieldToks(fields) ==
    [j \in 1..Len(fields) |->
        Tok("udf:field", fields[j].name, fields[j].type, "", fields[j].text)]

tostring(root) ==
    <<Tok("root", "", "", root.uri, "")>>
    \o ScalarToks(root.scalars, 1)
    \o [j \in 1..Len(root.refs) |->
           Tok(root.refs[j].tag, "", "", root.refs[j].uri, root.refs[j].value)]
    \o (IF root.udt = <<>> THEN <<>>
        ELSE <<Tok("udf:type", root.udt[1].name, "", "", "")>>
             \o FieldToks(root.udt[1].fields))
    \o FieldToks(root.fields)

(***************************************************************************)
(* The record of the call made last.                                       *)
(***************************************************************************)
NoReq    == [method |-> "", uri |-> "", body |-> <<>>]
\* no Entity object
NoHandle == <<"", 0>>
\* no dictionary
NoDictKey == <<"", "">>

Outcome(op, h, res) ==
    [op    |-> op,              \* the operation called
     h     |-> h,               \* the object it was called on, or returned
     res   |-> res,             \* "ok" or the exception raised
     dict  |-> NoDictKey,       \* the dictionary it was called on, or returned
     arg   |-> "",              \* the tag or key it was called with
     val   |-> PyNone,          \* the value passed or returned
     list  |-> <<>>,            \* the objects returned
     force |-> FALSE,           \* get(force=True)
     gets  |-> 0,               \* GET requests sent
     puts  |-> 0,               \* PUT requests sent
     posts |-> 0,               \* POST requests sent
     req   |-> NoReq,           \* the last request sent
     fetched |-> <<>>,          \* the pages of a listing fetched, in order
     failed |-> 0,              \* the request of the call that raised, or 0
     resp  |-> <<>>]            \* the documents the server answered with

\* an Entity object is named by its uri and its index in objects[uri]
HandleRefs == {<<u, i>> : u \in URIs, i \in 1..MaxHandles}
Handles    == {h \in HandleRefs : h[2] <= Len(objects[h[1]])}
Obj(h)     == objects[h[1]][h[2]]
UriOf(h)   == h[1]

RECURSIVE SumLen(_, _)
SumLen(f, S) ==
    IF S = {} THEN 0
    ELSE LET u == CHOOSE x \in S : TRUE IN Len(f[u]) + SumLen(f, S \ {u})

NumObjects(os) == SumLen(os, URIs)

Init ==
    /\ cache = [u \in URIs |-> 0]
    /\ objects = [u \in URIs |-> <<>>]
    /\ desc = [d \in Descriptors |-> NoDict]
    /\ lastOp = Outcome("init", NoHandle, "ok")

(***************************************************************************)
(* Entity.__new__ and Entity.__init__: klass(lims, uri=uri).  The result   *)
(* is the cache and the objects afterwards, and the object returned.       *)
(***************************************************************************)
\* Entity.__new__ without the look-up in lims.cache
EntityNewUncached(cls, uri, c, os) ==
    [cache   |-> [c EXCEPT ![uri] = Len(os[uri]) + 1],
     objects |-> [os EXCEPT ![uri] =
                     Append(@, [kind |-> cls, root |-> NoTree])],
     h       |-> <<uri, Len(os[uri]) + 1>>]

\* Entity.__init__ without the hasattr(self, 'lims') guard
EntityNewReinit(cls, uri, c, os) ==
    IF c[uri] # 0
    THEN [cache   |-> c,
          objects |-> [os EXCEPT ![uri][c[uri]].root = NoTree],
          h       |-> <<uri, c[uri]>>]
    ELSE [cache   |-> [c EXCEPT ![uri] = Len(os[uri]) + 1],
          objects |-> [os EXCEPT ![uri] =
                          Append(@, [kind |-> cls, root |-> NoTree])],
          h       |-> <<uri, Len(os[uri]) + 1>>]

\* a constructor that fetches the document of a new object at once
EntityNewLoaded(cls, uri, c, os) ==
    IF c[uri] # 0
    THEN [cache |-> c, objects |-> os, h |-> <<uri, c[uri]>>]
    ELSE [cache   |-> [c EXCEPT ![uri] = Len(os[uri]) + 1],
          objects |-> [os EXCEPT ![uri] =
                          Append(@, [kind |-> cls,
                                     root |-> [loaded  |-> TRUE,
                                               uri     |-> uri,
                                               scalars |-> [t \in {"name", "occupied-wells", "working-flag"} |-> <<>>],
                                               refs    |-> <<>>,
                                               fields  |-> <<>>,
                                               udt     |-> <<>>]])],
          h       |-> <<uri, Len(os[uri]) + 1>>]

EntityNew(cls, uri, c, os) ==
    IF c[uri] # 0
    THEN \* __new__ returns lims.cache[uri]; __init__, when it runs at all,
         \* finds the attribute lims and returns
         [cache |-> c, objects |-> os, h |-> <<uri, c[uri]>>]
    ELSE [cache   |-> [c EXCEPT ![uri] = Len(os[uri]) + 1],
          objects |-> [os EXCEPT ![uri] =
                          Append(@, [kind |-> cls, root |-> NoTree])],
          h       |-> <<uri, Len(os[uri]) + 1>>]

\* Entity(lims, uri=uri) or Entity(lims, id=id), called directly
Construct(cls, uri, byId) ==
    LET r == EntityNew(cls, uri, cache, objects) IN
    /\ NumObjects(r.objects) <= MaxHandles
    /\ cache' = r.cache
    /\ objects' = r.objects
    /\ lastOp' = [Outcome(IF byId THEN "construct_id" ELSE "construct_uri",
                          r.h, "ok") EXCEPT !.arg = cls]
    /\ UNCHANGED desc

(***************************************************************************)
(* References to udf:field Element objects.  A UdfDictionary keeps in      *)
(* _elems references to elements of the tree it was built from.  An        *)
(* element that is still in the root of its instance is referred to by its *)
(* position there (att); one that is not (the root was replaced, or the    *)
(* element removed) is an object only the dictionary reaches, and is kept  *)
(* by value (el).                                                          *)
(***************************************************************************)
NoField == Field("", "", "")
AttachedRef(inUdt, i) == [att |-> TRUE,  inUdt |-> inUdt, pos |-> i, el |-> NoField]
DetachedRef(e)        == [att |-> FALSE, inUdt |-> FALSE, pos |-> 0, el |-> e]

\* bool(self._udt): _udt is False, True or the name of the UDT
Truthy(v) == (v.k = "bool" /\ v.n = 1) \/ (v.k = "str" /\ v.s # "")

\* the udf:field children of the udf:type element (inUdt) or of the root
RegionFields(root, inUdt) ==
    IF inUdt
    THEN IF root.udt = <<>> THEN <<>> ELSE root.udt[1].fields
    ELSE root.fields

\* the element a reference refers to
ElemOf(ref, root) ==
    IF ref.att THEN RegionFields(root, ref.inUdt)[ref.pos] ELSE ref.el

\* a dictionary once the root of its instance is replaced
Detached(d, root) ==
    [d EXCEPT !.elems = [i \in 1..Len(d.elems) |->
                            DetachedRef(ElemOf(d.elems[i], root))]]

\* the descriptors' dictionaries once self.root of h is assigned anew
DescAfterAttach(ds, h, oldroot) ==
    [k \in Descriptors |->
        IF ds[k].set /\ ds[k].instance = h /\ oldroot.loaded
        THEN Detached(ds[k], oldroot)
        ELSE ds[k]]

(***************************************************************************)
(* Entity.get: the GET is answered with doc.                               *)
(***************************************************************************)
\* get(force) without the test of self.root
FetchesAlways(o, force) == TRUE

\* whether get(force) sends the GET
Fetches(o, force) == force \/ ~o.root.loaded

\* get(force) that keeps the scalar elements the new document lacks
EntityGetMerge(o, uri, force, doc) ==
    IF Fetches(o, force)
    THEN [o EXCEPT !.root =
            IF o.root.loaded
            THEN [ParseDoc(doc, uri) EXCEPT
                    !.scalars = [t \in ScalarTags |->
                                    IF doc.scalars[t] = <<>>
                                    THEN o.root.scalars[t]
                                    ELSE doc.scalars[t]]]
            ELSE ParseDoc(doc, uri)]
    ELSE o

\* the object after get(force), the GET being answered with doc
EntityGet(o, uri, force, doc) ==
    IF Fetches(o, force) THEN [o EXCEPT !.root = ParseDoc(doc, uri)] ELSE o

\* the documents a get(force) may be answered with, out of docs
Answers(o, force, docs) == IF Fetches(o, force) THEN docs ELSE {DocPlain}

GetReq(uri) == [method |-> "GET", uri |-> uri, body |-> <<>>]

\* the part of an outcome that get(force) accounts for
WithGet(out, h, force, doc) ==
    IF Fetches(Obj(h), force)
    THEN [out EXCEPT !.gets = 1, !.req = GetReq(UriOf(h)),
                     !.resp = <<[uri |-> UriOf(h), doc |-> doc]>>]
    ELSE out

Get(h, force, docs) ==
    /\ h \in Handles
    /\ \E doc \in Answers(Obj(h), force, docs) :
          /\ objects' = [objects EXCEPT ![h[1]][h[2]] =
                            EntityGet(Obj(h), UriOf(h), force, doc)]
          /\ lastOp' = [WithGet(Outcome("get", h, "ok"), h, force, doc)
                          EXCEPT !.force = force]
    /\ desc' = IF Fetches(Obj(h), force)
               THEN DescAfterAttach(desc, h, Obj(h).root) ELSE desc
    /\ UNCHANGED cache

(***************************************************************************)
(* Entity.put                                                              *)
(***************************************************************************)
\* put that keeps the response of the PUT as the root
PutAttach(h) ==
    /\ h \in Handles
    /\ lastOp' =
         IF ~Obj(h).root.loaded
         THEN Outcome("put", h, "AttributeError")
         ELSE [Outcome("put", h, "ok") EXCEPT
                 !.puts = 1,
                 !.req = [method |-> "PUT",
                          uri    |-> UriOf(h),
                          body   |-> tostring(Obj(h).root)]]
    /\ objects' = IF ~Obj(h).root.loaded THEN objects
                  ELSE [objects EXCEPT ![h[1]][h[2]].root =
                                          ParseDoc(DocPlain, UriOf(h))]
    /\ UNCHANGED <<cache, desc>>

Put(h) ==
    /\ h \in Handles
    /\ lastOp' =
         IF ~Obj(h).root.loaded
         THEN \* ElementTree(None).write: None has no attribute iter
              Outcome("put", h, "AttributeError")
         ELSE [Outcome("put", h, "ok") EXCEPT
                 !.puts = 1,
                 !.req = [method |-> "PUT",
                          uri    |-> UriOf(h),
                          body   |-> tostring(Obj(h).root)]]
    /\ UNCHANGED <<cache, objects, desc>>

(***************************************************************************)
(* StringDescriptor, IntegerDescriptor, BooleanDescriptor                  *)
(***************************************************************************)
\* str.lower() on the texts and type tags that occur
Lower(s) ==
    CASE s = "True"    -> "true"
      [] s = "TRUE"    -> "true"
      [] s = "False"   -> "false"
      [] s = "String"  -> "string"
      [] s = "Text"    -> "text"
      [] s = "Numeric" -> "numeric"
      [] s = "Boolean" -> "boolean"
      [] s = "Date"    -> "date"
      [] OTHER         -> s

\* the integers int() is applied to the text of
IntRange == 0..99
IsIntText(s) == \E n \in IntRange : ToString(n) = s
\* int(text)
ParseInt(s) == CHOOSE n \in IntRange : ToString(n) = s

DescriptorTags(kind) == StringTags[kind] \cup IntegerTags[kind] \cup BooleanTags[kind]

\* TagDescriptor.get_node: instance.root.find(self.tag), as the list of the
\* texts of the element found (empty when find returns None).  The text ""
\* stands for an element without text, whose text attribute is None.
get_node(root, tag) ==
    IF root.scalars[tag] = <<>> THEN <<>> ELSE <<root.scalars[tag][1]>>

\* what __get__ returns or raises once the root is loaded
ScalarValue(kind, tag, root) ==
    LET node == get_node(root, tag) IN
    IF node = <<>> THEN [res |-> "ok", val |-> PyNone]
    ELSE IF tag \in IntegerTags[kind]
         THEN IF node[1] = ""       \* int(None)
              THEN [res |-> "TypeError", val |-> PyNone]
              ELSE IF IsIntText(node[1])
              THEN [res |-> "ok", val |-> PyInt(ParseInt(node[1]))]
              ELSE [res |-> "ValueError", val |-> PyNone]
    ELSE IF tag \in BooleanTags[kind]
         THEN IF node[1] = ""       \* None has no attribute lower
              THEN [res |-> "AttributeError", val |-> PyNone]
              ELSE [res |-> "ok", val |-> PyBool(Lower(node[1]) = "true")]
    ELSE IF node[1] = "" THEN [res |-> "ok", val |-> PyNone]
    ELSE [res |-> "ok", val |-> PyStr(node[1])]

\* StringDescriptor.__get__, IntegerDescriptor.__get__, BooleanDescriptor.__get__
ScalarRead(h, tag, docs) ==
    /\ h \in Handles
    /\ tag \in DescriptorTags(Obj(h).kind)
    /\ \E doc \in Answers(Obj(h), FALSE, docs) :
        LET o == EntityGet(Obj(h), UriOf(h), FALSE, doc)
            r == ScalarValue(o.kind, tag, o.root) IN
        /\ objects' = [objects EXCEPT ![h[1]][h[2]] = o]
        /\ lastOp' = [WithGet(Outcome("read", h, r.res), h, FALSE, doc)
                        EXCEPT !.val = r.val, !.arg = tag]
    /\ UNCHANGED <<cache, desc>>

\* the texts assigned through a scalar descriptor
WriteTexts == {"7"}

\* __set__ that creates the element when there is none
RootAfterSetCreates(root, tag, text) ==
    IF ~root.loaded THEN root
    ELSE IF get_node(root, tag) = <<>>
         THEN [root EXCEPT !.scalars[tag] = <<text>>]
    ELSE [root EXCEPT !.scalars[tag][1] = text]

\* instance.root after StringDescriptor.__set__(instance, value)
RootAfterSet(root, tag, text) ==
    IF ~root.loaded THEN root
    ELSE IF get_node(root, tag) = <<>> THEN root
    ELSE [root EXCEPT !.scalars[tag][1] = text]

\* what StringDescriptor.__set__ raises
SetResult(root, tag) ==
    IF ~root.loaded THEN "AttributeError"       \* None has no attribute find
    ELSE IF get_node(root, tag) = <<>> THEN "AttributeError"
    ELSE "ok"

\* StringDescriptor.__set__, inherited by the integer and boolean descriptors
ScalarWrite(h, tag, text) ==
    /\ h \in Handles
    /\ tag \in DescriptorTags(Obj(h).kind)
    /\ objects' = [objects EXCEPT
                     ![h[1]][h[2]].root = RootAfterSet(Obj(h).root, tag, text)]
    /\ lastOp' = [Outcome("write", h, SetResult(Obj(h).root, tag))
                    EXCEPT !.val = PyStr(text), !.arg = tag]
    /\ UNCHANGED <<cache, desc>>

(***************************************************************************)
(* EntityDescriptor, EntityListDescriptor                                  *)
(***************************************************************************)
\* klass(lims, uri=u) for every u of uris, in order
RECURSIVE ConstructAll(_, _, _, _)
ConstructAll(cls, uris, c, os) ==
    IF uris = <<>> THEN [cache |-> c, objects |-> os, list |-> <<>>]
    ELSE LET r    == EntityNew(cls, Head(uris), c, os)
             rest == ConstructAll(cls, Tail(uris), r.cache, r.objects)
         IN [rest EXCEPT !.list = <<r.h>> \o rest.list]

\* root.findall(tag), as the uri attributes of the elements found
RECURSIVE FindAllUris(_, _)
FindAllUris(refs, tag) ==
    IF refs = <<>> THEN <<>>
    ELSE (IF Head(refs).tag = tag THEN <<Head(refs).uri>> ELSE <<>>)
         \o FindAllUris(Tail(refs), tag)

\* a descriptor that calls get() on the first object it returns
NestedReadFetching(h, docs) ==
    /\ h \in Handles
    /\ Obj(h).kind \in DOMAIN RefDescriptor
    /\ \E doc \in Answers(Obj(h), FALSE, docs) :
        LET o     == EntityGet(Obj(h), UriOf(h), FALSE, doc)
            os    == [objects EXCEPT ![h[1]][h[2]] = o]
            rd    == RefDescriptor[o.kind]
            found == FindAllUris(o.root.refs, rd.tag)
            uris  == IF rd.many THEN found
                     ELSE IF found = <<>> THEN <<>> ELSE <<found[1]>>
            r     == ConstructAll(rd.klass, uris, cache, os)
            out   == WithGet(Outcome("nested", h, "ok"), h, FALSE, doc)
        IN
        /\ NumObjects(r.objects) <= MaxHandles
        /\ cache' = r.cache
        /\ objects' = IF r.list = <<>> THEN r.objects
                      ELSE [r.objects EXCEPT ![r.list[1][1]][r.list[1][2]] =
                               EntityGet(@, r.list[1][1], TRUE, doc)]
        /\ lastOp' = IF ~rd.many /\ found = <<>>
                     THEN [out EXCEPT !.res = "AttributeError", !.arg = rd.tag]
                     ELSE [out EXCEPT !.list = r.list, !.arg = rd.tag,
                                      !.gets = @ + Len(r.list)]
    /\ UNCHANGED desc

\* EntityDescriptor.__get__ and EntityListDescriptor.__get__
NestedRead(h, docs) ==
    /\ h \in Handles
    /\ Obj(h).kind \in DOMAIN RefDescriptor
    /\ \E doc \in Answers(Obj(h), FALSE, docs) :
        LET o     == EntityGet(Obj(h), UriOf(h), FALSE, doc)
            os    == [objects EXCEPT ![h[1]][h[2]] = o]
            rd    == RefDescriptor[o.kind]
            found == FindAllUris(o.root.refs, rd.tag)
            uris  == IF rd.many THEN found
                     ELSE IF found = <<>> THEN <<>> ELSE <<found[1]>>
            r     == ConstructAll(rd.klass, uris, cache, os)
            out   == WithGet(Outcome("nested", h, "ok"), h, FALSE, doc)
        IN
        /\ NumObjects(r.objects) <= MaxHandles
        /\ cache' = r.cache
        /\ objects' = r.objects
        /\ lastOp' = IF ~rd.many /\ found = <<>>
                     THEN \* root.find returns None: None has no attrib
                          [out EXCEPT !.res = "AttributeError", !.arg = rd.tag]
                     ELSE [out EXCEPT !.list = r.list, !.arg = rd.tag]
    /\ UNCHANGED desc

(***************************************************************************)
(* Lims._get_instances: the listing is answered with the chain of pages;   *)
(* every page but the last carries a next-page link.                       *)
(***************************************************************************)
MaxPages == 2

RECURSIVE Flatten(_)
Flatten(pages) ==
    IF pages = <<>> THEN <<>> ELSE Head(pages) \o Flatten(Tail(pages))

\* a listing that reads the elements of the first page only
PagesReadFirst(pages, startIndex) ==
    IF startIndex = "" THEN <<pages[1]>> ELSE <<>>

\* the pages the loop of _get_instances reads the elements of
PagesRead(pages, startIndex) == IF startIndex = "" THEN pages ELSE <<>>

\* a listing that follows the next-page links whatever the start index
PagesFetchedAll(pages, startIndex) == Len(pages)

\* the number of GET requests _get_instances sends
PagesFetched(pages, startIndex) == IF startIndex = "" THEN Len(pages) ELSE 1

\* the pages _get_instances fetches, in the order of the requests: the
\* first page, and in the loop the page each next-page link leads to
FetchOrder(pages, startIndex) ==
    IF startIndex = "" THEN [i \in 1..Len(pages) |-> i] ELSE <<1>>

GetInstances(klass, startIndex, pages) ==
    LET uris == FindAllUris(Flatten(PagesRead(pages, startIndex)), ListTag[klass])
        r    == ConstructAll(klass, uris, cache, objects)
    IN
    /\ NumObjects(r.objects) <= MaxHandles
    /\ cache' = r.cache
    /\ objects' = r.objects
    /\ lastOp' = [Outcome("list", NoHandle, "ok") EXCEPT
                    !.arg = klass,
                    !.val = PyStr(startIndex),
                    !.list = r.list,
                    !.gets = PagesFetched(pages, startIndex),
                    !.fetched = FetchOrder(pages, startIndex),
                    !.resp = pages,
                    !.req = [method |-> "GET",
                             uri    |-> BaseUri \o "api" \o "/" \o VERSION
                                           \o "/" \o ResourcePath[klass],
                             body   |-> <<>>]]
    /\ UNCHANGED desc

\* a listing that returns what it has read when a GET fails
GetInstancesFailingPartial(klass, startIndex, pages, k) ==
    LET read == SubSeq(PagesRead(pages, startIndex), 1, k - 1)
        uris == FindAllUris(Flatten(read), ListTag[klass])
        r    == ConstructAll(klass, uris, cache, objects)
    IN
    /\ k \in 1..PagesFetched(pages, startIndex)
    /\ NumObjects(r.objects) <= MaxHandles
    /\ cache' = r.cache
    /\ objects' = r.objects
    /\ lastOp' = [Outcome("list", NoHandle, "ok") EXCEPT
                    !.arg = klass,
                    !.val = PyStr(startIndex),
                    !.list = r.list,
                    !.gets = k,
                    !.failed = k,
                    !.fetched = SubSeq(FetchOrder(pages, startIndex), 1, k),
                    !.resp = pages,
                    !.req = [method |-> "GET",
                             uri    |-> BaseUri \o "api" \o "/" \o VERSION
                                           \o "/" \o ResourcePath[klass],
                             body   |-> <<>>]]
    /\ UNCHANGED desc

\* _get_instances when the k-th GET it sends raises (an exception of the
\* requests call, or the HTTPError of parse_response): the objects for the
\* elements of the pages before it have been constructed, the exception
\* leaves the function and the list is dropped
GetInstancesFailing(klass, startIndex, pages, k) ==
    LET read == SubSeq(PagesRead(pages, startIndex), 1, k - 1)
        uris == FindAllUris(Flatten(read), ListTag[klass])
        r    == ConstructAll(klass, uris, cache, objects)
    IN
    /\ k \in 1..PagesFetched(pages, startIndex)
    /\ NumObjects(r.objects) <= MaxHandles
    /\ cache' = r.cache
    /\ objects' = r.objects
    /\ lastOp' = [Outcome("list", NoHandle, "HTTPError") EXCEPT
                    !.arg = klass,
                    !.val = PyStr(startIndex),
                    !.gets = k,
                    !.failed = k,
                    !.fetched = SubSeq(FetchOrder(pages, startIndex), 1, k),
                    !.resp = pages,
                    !.req = [method |-> "GET",
                             uri    |-> BaseUri \o "api" \o "/" \o VERSION
                                           \o "/" \o ResourcePath[klass],
                             body   |-> <<>>]]
    /\ UNCHANGED desc

\* the pages a listing of klass may be answered with: one element, or
\* both uris of the kind, the second first
PageOf(klass, ids) == [i \in 1..Len(ids) |->
                          Ref(ListTag[klass], GetUri(ResourcePath[klass], ids[i]), "")]
PageSet(klass) == {PageOf(klass, <<"1">>), PageOf(klass, <<"2", "1">>)}
\* chains of up to MaxPages pages: any first page, then pages of two elements
Chains(klass) ==
    {[i \in 1..n |-> IF i = 1 THEN p ELSE PageOf(klass, <<"2", "1">>)] :
        n \in 1..MaxPages, p \in PageSet(klass)}
\* the listings asked for: all pages of any chain, or the page at a start
\* index of a chain of MaxPages pages
ListInputs(klass) ==
    {<<"", c>> : c \in Chains(klass)}
        \cup {<<"0", [i \in 1..MaxPages |-> PageOf(klass, <<"2", "1">>)]>>}

(***************************************************************************)
(* Lims.get_batch: the POST is answered with one fragment per link, in the *)
(* order perm, the fragments being the documents docs.                     *)
(***************************************************************************)
MaxBatch == 2

\* instance = klass(self, uri=node.attrib['uri']); instance.root = node,
\* for every node of the response
RECURSIVE AttachAll(_, _, _, _, _)
AttachAll(klass, frags, c, os, ds) ==
    IF frags = <<>>
    THEN [cache |-> c, objects |-> os, desc |-> ds, list |-> <<>>]
    ELSE LET f    == Head(frags)
             r    == EntityNew(klass, f.uri, c, os)
             old  == r.objects[r.h[1]][r.h[2]].root
             os2  == [r.objects EXCEPT ![r.h[1]][r.h[2]].root =
                                           ParseDoc(f.doc, f.uri)]
             ds2  == DescAfterAttach(ds, r.h, old)
             rest == AttachAll(klass, Tail(frags), r.cache, os2, ds2)
         IN [rest EXCEPT !.list = <<r.h>> \o rest.list]

\* get_batch that attaches the i-th fragment of the response to the i-th
\* instance passed
GetBatchByPosition(instances, frags) ==
    /\ \A i \in 1..Len(instances) : instances[i] \in Handles
    /\ IF instances = <<>>
       THEN /\ lastOp' = Outcome("batch", NoHandle, "ok")
            /\ UNCHANGED <<cache, objects, desc>>
       ELSE LET klass == Obj(instances[1]).kind
                r     == AttachAll(klass,
                                   [i \in 1..Len(frags) |->
                                       [uri |-> UriOf(instances[i]),
                                        doc |-> frags[i].doc]],
                                   cache, objects, desc)
            IN
            /\ NumObjects(r.objects) <= MaxHandles
            /\ cache' = r.cache
            /\ objects' = r.objects
            /\ desc' = r.desc
            /\ lastOp' = [Outcome("batch", instances[1], "ok") EXCEPT
                            !.arg = klass,
                            !.list = r.list,
                            !.resp = frags,
                            !.posts = 1,
                            !.req = [method |-> "POST",
                                     uri    |-> GetUri(ResourcePath[klass],
                                                       "batch/retrieve"),
                                     body   |-> [i \in 1..Len(instances) |->
                                                   UriOf(instances[i])]]]

\* get_batch without the test of an empty list of instances
GetBatchAlwaysPosts(instances, frags) ==
    /\ \A i \in 1..Len(instances) : instances[i] \in Handles
    /\ IF instances = <<>>
       THEN /\ lastOp' = [Outcome("batch", NoHandle, "ok") EXCEPT
                            !.posts = 1,
                            !.req = [method |-> "POST",
                                     uri    |-> GetUri("", "batch/retrieve"),
                                     body   |-> <<>>]]
            /\ UNCHANGED <<cache, objects, desc>>
       ELSE LET klass == Obj(instances[1]).kind
                r     == AttachAll(klass, frags, cache, objects, desc)
            IN
            /\ NumObjects(r.objects) <= MaxHandles
            /\ cache' = r.cache
            /\ objects' = r.objects
            /\ desc' = r.desc
            /\ lastOp' = [Outcome("batch", instances[1], "ok") EXCEPT
                            !.arg = klass,
                            !.list = r.list,
                            !.resp = frags,
                            !.posts = 1,
                            !.req = [method |-> "POST",
                                     uri    |-> GetUri(ResourcePath[klass],
                                                       "batch/retrieve"),
                                     body   |-> [i \in 1..Len(instances) |->
                                                   UriOf(instances[i])]]]

GetBatch(instances, frags) ==
    /\ \A i \in 1..Len(instances) : instances[i] \in Handles
    /\ IF instances = <<>>
       THEN /\ lastOp' = Outcome("batch", NoHandle, "ok")
            /\ UNCHANGED <<cache, objects, desc>>
       ELSE LET klass == Obj(instances[1]).kind
                r     == AttachAll(klass, frags, cache, objects, desc)
            IN
            /\ NumObjects(r.objects) <= MaxHandles
            /\ cache' = r.cache
            /\ objects' = r.objects
            /\ desc' = r.desc
            /\ lastOp' = [Outcome("batch", instances[1], "ok") EXCEPT
                            !.arg = klass,
                            !.list = r.list,
                            !.resp = frags,
                            !.posts = 1,
                            !.req = [method |-> "POST",
                                     uri    |-> GetUri(ResourcePath[klass],
                                                       "batch/retrieve"),
                                     body   |-> [i \in 1..Len(instances) |->
                                                   UriOf(instances[i])]]]

\* the lists of distinct objects get_batch is called with
BatchInputs ==
    UNION {{l \in [1..n -> Handles] : \A i, j \in 1..n : l[i] = l[j] => i = j} :
             n \in 0..MaxBatch}

\* the responses to a batch retrieve of instances: one fragment per link,
\* in the order of the links or in the reverse order, the documents
\* alternating
Orders(n) == {[i \in 1..n |-> i], [i \in 1..n |-> n + 1 - i]}
BatchDocs(n, p) ==
    [i \in 1..n |-> IF (i + p[1]) % 2 = 0 THEN DocPlain ELSE DocRich]
BatchAnswers(instances) ==
    {[i \in 1..Len(instances) |->
         [uri |-> UriOf(instances[p[i]]),
          doc |-> BatchDocs(Len(instances), p)[i]]] :
       p \in Orders(Len(instances))}

(***************************************************************************)
(* A session over the samples and the artifacts.                           *)
(***************************************************************************)
SessionKinds == {"Sample", "Artifact"}

\* the (class, uri) pairs Entity is constructed with directly: every uri
\* with the class it belongs to, and a sample uri with another class
ByUriInputs == {<<KindOfUri[u], u>> : u \in {v \in URIs : KindOfUri[v] \in SessionKinds}}
                   \cup {<<"Artifact", SampleUri("1")>>}

ConstructByUri == \E in \in ByUriInputs : Construct(in[1], in[2], FALSE)
ConstructById ==
    \E cls \in SessionKinds, id \in Ids :
        Construct(cls, GetUri(ResourcePath[cls], id), TRUE)
DoGet == \E h \in HandleRefs, force \in BOOLEAN : Get(h, force, Docs)
DoPut == \E h \in HandleRefs : Put(h)
DoScalarRead == \E h \in HandleRefs, tag \in ScalarTags : ScalarRead(h, tag, Docs)
DoScalarWrite ==
    \E h \in HandleRefs, tag \in ScalarTags, text \in WriteTexts :
        ScalarWrite(h, tag, text)
DoNestedRead == \E h \in HandleRefs : NestedRead(h, Docs)
DoGetInstances ==
    \E klass \in SessionKinds :
        \E in \in ListInputs(klass) : GetInstances(klass, in[1], in[2])
\* a listing over a chain of MaxPages pages one GET of which fails
DoGetInstancesFailing ==
    \E klass \in SessionKinds :
        \E in \in {i \in ListInputs(klass) : Len(i[2]) = MaxPages}, k \in 1..MaxPages :
            GetInstancesFailing(klass, in[1], in[2], k)
DoGetBatch ==
    \E instances \in BatchInputs :
        \E frags \in BatchAnswers(instances) : GetBatch(instances, frags)

Next ==
    \/ ConstructByUri
    \/ ConstructById
    \/ DoGet
    \/ DoPut
    \/ DoScalarRead
    \/ DoScalarWrite
    \/ DoNestedRead
    \/ DoGetInstances
    \/ DoGetInstancesFailing
    \/ DoGetBatch

Spec == Init /\ [][Next]_vars

(***************************************************************************)
(* Properties of the session.                                              *)
(***************************************************************************)
ConstructOps == {"construct_uri", "construct_id"}
\* the calls that read an attribute through a descriptor
ReadOps == {"read", "nested"}

RootOf(os, h) == os[h[1]][h[2]].root

\* C1: identity map.  Every uri has at most one Entity object, which is the
\* one registered in the cache, and every construction (direct, from a
\* nested reference, from a listing or from a batch response) returns the
\* object registered under the uri: two constructions that resolve to the
\* same uri return the same object.
C1_IdentityMap ==
    /\ \A u \in URIs : Len(objects[u]) <= 1 /\ cache[u] = Len(objects[u])
    /\ lastOp.op \in ConstructOps => lastOp.h[2] = cache[lastOp.h[1]]
    /\ \A i \in 1..Len(lastOp.list) :
          lastOp.list[i][2] = cache[lastOp.list[i][1]]

\* a listing returned an object that had been constructed, loaded and
\* changed before
C1_Witness ==
    /\ lastOp.op = "list"
    /\ \E i \in 1..Len(lastOp.list) :
          /\ RootOf(objects, lastOp.list[i]).loaded
          /\ RootOf(objects, lastOp.list[i]).scalars["name"] = <<"7">>

\* C2: lazy load.  A non-forced attribute read sends a GET exactly when the
\* root of the object is unset, and none when it is set; a root once set
\* stays set.
C2_LazyLoad ==
    [][/\ lastOp'.op \in ReadOps =>
            lastOp'.gets = (IF RootOf(objects, lastOp'.h).loaded THEN 0 ELSE 1)
       /\ \A h \in Handles :
            RootOf(objects, h).loaded => RootOf(objects', h).loaded]_vars

\* an attribute was read from a loaded object without a GET
C2_Witness ==
    /\ lastOp.op = "read"
    /\ lastOp.gets = 0
    /\ lastOp.val = PyStr("n1")

\* C3: constructing an entity whose uri is in the cache returns the object
\* registered there; no request is sent, and no object and no cache entry
\* changes.
C3_ConstructExisting ==
    [][(lastOp'.op \in ConstructOps /\ cache[lastOp'.h[1]] # 0) =>
          /\ lastOp'.h[2] = cache[lastOp'.h[1]]
          /\ objects' = objects
          /\ cache' = cache
          /\ lastOp'.gets + lastOp'.puts + lastOp'.posts = 0]_vars

\* an object with an unsaved change was constructed again by id
C3_Witness ==
    /\ lastOp.op = "construct_id"
    /\ RootOf(objects, lastOp.h).loaded
    /\ RootOf(objects, lastOp.h).scalars["name"] = <<"7">>

\* the root holds exactly the children of the document
SameAsDoc(root, doc) ==
    /\ root.loaded
    /\ root.scalars = doc.scalars
    /\ root.refs = doc.refs
    /\ root.fields = doc.fields
    /\ root.udt = doc.udt

\* C4: a root is unset until a GET for the object or a batch response sets
\* it; after a GET for the object and after a batch attach, the root is
\* exactly the document the server sent.
C4_WholesaleReplace ==
    [][/\ (lastOp'.op = "get" /\ lastOp'.gets = 1) =>
              SameAsDoc(RootOf(objects', lastOp'.h), lastOp'.resp[1].doc)
       /\ lastOp'.op = "batch" =>
              \A i \in 1..Len(lastOp'.resp) :
                  (\A j \in (i+1)..Len(lastOp'.resp) :
                       lastOp'.resp[j].uri # lastOp'.resp[i].uri)
                  => SameAsDoc(RootOf(objects', <<lastOp'.resp[i].uri,
                                                  cache'[lastOp'.resp[i].uri]>>),
                               lastOp'.resp[i].doc)
       /\ \A h \in Handles' :
              (RootOf(objects', h).loaded
                  /\ (h \in Handles => ~RootOf(objects, h).loaded))
              => \/ lastOp'.op \in {"get", "read", "nested"}
                        /\ lastOp'.gets = 1 /\ lastOp'.h = h
                 \/ lastOp'.op = "batch"
                        /\ \E i \in 1..Len(lastOp'.resp) :
                               lastOp'.resp[i].uri = h[1]]_vars

\* a forced get replaced a root with a document
C4_Witness ==
    /\ lastOp.op = "get"
    /\ lastOp.force
    /\ lastOp.resp = <<[uri |-> lastOp.h[1], doc |-> DocRich]>>
    /\ RootOf(objects, lastOp.h).scalars["name"] = <<>>

\* the body lists the root element and every child of the root, with its
\* attributes and its text, and nothing else
IsPayloadOf(body, root) ==
    /\ Len(body) = 1 + Len(root.scalars["name"])
                     + Len(root.scalars["occupied-wells"])
                     + Len(root.scalars["working-flag"])
                     + Len(root.refs) + Len(root.fields)
                     + (IF root.udt = <<>> THEN 0
                        ELSE 1 + Len(root.udt[1].fields))
    /\ \A t \in ScalarTags : \A j \in 1..Len(root.scalars[t]) :
          \E k \in 1..Len(body) :
              body[k].tag = t /\ body[k].text = root.scalars[t][j]
    /\ \A j \in 1..Len(root.refs) :
          \E k \in 1..Len(body) :
              /\ body[k].tag = root.refs[j].tag
              /\ body[k].uri = root.refs[j].uri
              /\ body[k].text = root.refs[j].value
    /\ \A j \in 1..Len(root.fields) :
          \E k \in 1..Len(body) :
              /\ body[k].tag = "udf:field"
              /\ body[k].name = root.fields[j].name
              /\ body[k].type = root.fields[j].type
              /\ body[k].text = root.fields[j].text
    /\ root.udt # <<>> =>
          /\ \E k \in 1..Len(body) :
                body[k].tag = "udf:type" /\ body[k].name = root.udt[1].name
          /\ \A j \in 1..Len(root.udt[1].fields) :
                \E k \in 1..Len(body) :
                    /\ body[k].tag = "udf:field"
                    /\ body[k].name = root.udt[1].fields[j].name
                    /\ body[k].type = root.udt[1].fields[j].type
                    /\ body[k].text = root.udt[1].fields[j].text

\* C5: put on a loaded object sends one PUT, to the uri of the object, with
\* the whole current root as the body, sends nothing else, and changes no
\* object, no cache entry and no dictionary.
C5_PutFrame ==
    [][(lastOp'.op = "put" /\ RootOf(objects, lastOp'.h).loaded) =>
          /\ lastOp'.res = "ok"
          /\ lastOp'.puts = 1 /\ lastOp'.gets = 0 /\ lastOp'.posts = 0
          /\ lastOp'.req.method = "PUT"
          /\ lastOp'.req.uri = lastOp'.h[1]
          /\ IsPayloadOf(lastOp'.req.body, RootOf(objects, lastOp'.h))
          /\ objects' = objects
          /\ cache' = cache
          /\ desc' = desc]_vars

\* an object with a local change was put
C5_Witness ==
    /\ lastOp.op = "put"
    /\ lastOp.res = "ok"
    /\ RootOf(objects, lastOp.h).scalars["name"] = <<"7">>
    /\ \E k \in 1..Len(lastOp.req.body) :
          lastOp.req.body[k].tag = "name" /\ lastOp.req.body[k].text = "7"

\* C16: batch attach.  When get_batch is passed distinct objects of one
\* kind and the response holds one fragment per uri requested, in any
\* order, then afterwards every object passed has as its root the fragment
\* whose uri attribute is the uri of the object, whatever the position of
\* the fragment; the objects returned are the cached objects that were
\* passed, and no other object and no cache entry changes.
C16_BatchAttach ==
    [][(lastOp'.op = "batch" /\ lastOp'.h # NoHandle) =>
          LET uris == lastOp'.req.body
              resp == lastOp'.resp
              passed == {<<uris[i], cache[uris[i]]>> : i \in 1..Len(uris)}
          IN
          (\A h \in passed : Obj(h).kind = lastOp'.arg)
          => /\ \A h \in passed :
                   \E j \in 1..Len(resp) :
                       /\ resp[j].uri = h[1]
                       /\ SameAsDoc(RootOf(objects', h), resp[j].doc)
             /\ Len(lastOp'.list) = Len(uris)
             /\ {lastOp'.list[j] : j \in 1..Len(lastOp'.list)} = passed
             /\ cache' = cache
             /\ \A h \in Handles \ passed : Obj(h)' = Obj(h)]_vars

\* two objects were loaded by one batch whose response listed them in the
\* reverse order, with different documents
C16_Witness ==
    /\ lastOp.op = "batch"
    /\ Len(lastOp.resp) = 2
    /\ lastOp.resp[1].uri = lastOp.req.body[2]
    /\ lastOp.resp[2].uri = lastOp.req.body[1]
    /\ lastOp.resp[1].doc # lastOp.resp[2].doc
    /\ SameAsDoc(RootOf(objects, <<lastOp.req.body[1], 1>>), lastOp.resp[2].doc)
    /\ SameAsDoc(RootOf(objects, <<lastOp.req.body[2], 1>>), lastOp.resp[1].doc)

\* C17: get_batch with an empty list returns an empty list, sends no
\* request, and changes no cache entry, no object and no dictionary.
C17_BatchEmpty ==
    [][(lastOp'.op = "batch" /\ lastOp'.h = NoHandle) =>
          /\ lastOp'.res = "ok"
          /\ lastOp'.list = <<>>
          /\ lastOp'.gets + lastOp'.puts + lastOp'.posts = 0
          /\ lastOp'.req = NoReq
          /\ cache' = cache
          /\ objects' = objects
          /\ desc' = desc]_vars

\* get_batch was called with an empty list while a loaded, changed object
\* existed
C17_Witness ==
    /\ lastOp.op = "batch"
    /\ lastOp.h = NoHandle
    /\ lastOp.list = <<>>
    /\ \E h \in Handles :
          RootOf(objects, h).loaded /\ RootOf(objects, h).scalars["name"] = <<"7">>

\* the objects a listing of klass returns for the reference elements of
\* the pages, in the order of the pages and of the elements in each page
ListedHandles(klass, pages, c) ==
    LET uris == FindAllUris(Flatten(pages), ListTag[klass])
    IN [i \in 1..Len(uris) |-> <<uris[i], c[uris[i]]>>]

\* C18: paging with no start index.  For a chain of pages linked by
\* next-page links the listing sends one GET per page of the chain, in
\* chain order, and returns one object per reference element of every
\* page, in page order and then document order; each is the cached object
\* of its uri.  (Every GET of the listing is answered.)
C18_PagingAll ==
    [][(lastOp'.op = "list" /\ lastOp'.val = PyStr("") /\ lastOp'.failed = 0) =>
          LET pages == lastOp'.resp IN
          /\ lastOp'.res = "ok"
          /\ lastOp'.gets = Len(pages)
          /\ lastOp'.fetched = [i \in 1..Len(pages) |-> i]
          /\ lastOp'.list = ListedHandles(lastOp'.arg, pages, cache')
          /\ \A i \in 1..Len(lastOp'.list) : lastOp'.list[i] \in Handles']_vars

\* a listing went through a chain of two pages and returned the element of
\* the first page followed by the two elements of the second
C18_Witness ==
    /\ lastOp.op = "list"
    /\ lastOp.res = "ok"
    /\ lastOp.val = PyStr("")
    /\ Len(lastOp.resp) = 2
    /\ Len(lastOp.resp[1]) = 1
    /\ lastOp.gets = 2
    /\ Len(lastOp.list) = 3
    /\ lastOp.list[1][1] = lastOp.resp[1][1].uri
    /\ lastOp.list[2][1] = lastOp.resp[2][1].uri
    /\ lastOp.list[3][1] = lastOp.resp[2][2].uri

\* C19: a listing with a start index, when its GET is answered, returns one
\* object per reference element of the page the server answers with.
C19_StartIndexPage ==
    [][(lastOp'.op = "list" /\ lastOp'.val # PyStr("") /\ lastOp'.failed = 0) =>
          lastOp'.list = ListedHandles(lastOp'.arg, <<lastOp'.resp[1]>>, cache')]_vars

\* C20: a listing with a start index sends exactly one GET, to the listing
\* endpoint of the kind, and follows no next-page link, also when the page
\* returned is followed by another.
C20_StartIndexOneGet ==
    [][(lastOp'.op = "list" /\ lastOp'.val # PyStr("")) =>
          /\ lastOp'.gets = 1
          /\ lastOp'.fetched = <<1>>
          /\ lastOp'.req = [method |-> "GET",
                            uri    |-> BaseUri \o "api" \o "/" \o VERSION \o "/"
                                           \o ResourcePath[lastOp'.arg],
                            body   |-> <<>>]
          /\ lastOp'.puts + lastOp'.posts = 0]_vars

\* a listing with a start index was answered with the first page of a chain
\* of two pages and sent one GET
C20_Witness ==
    /\ lastOp.op = "list"
    /\ lastOp.res = "ok"
    /\ lastOp.val = PyStr("0")
    /\ Len(lastOp.resp) >= 2
    /\ lastOp.resp[1] # <<>>
    /\ lastOp.gets = 1

\* C30: when the GET of a page of a listing fails, the page being the
\* first or a later one, the listing call fails with the transport error
\* and returns no list, not even the objects of the pages read before; the
\* failed page is not requested again and no page after it is requested.
C30_ListingAborts ==
    [][(lastOp'.op = "list" /\ lastOp'.failed # 0) =>
          /\ lastOp'.res = "HTTPError"
          /\ lastOp'.list = <<>>
          /\ lastOp'.failed \in 1..Len(lastOp'.resp)
          /\ lastOp'.gets = lastOp'.failed
          /\ lastOp'.fetched = [i \in 1..lastOp'.failed |-> i]
          /\ lastOp'.puts + lastOp'.posts = 0]_vars

\* the second page of a chain failed after the object for the element of
\* the first page had been constructed
C30_Witness ==
    /\ lastOp.op = "list"
    /\ lastOp.res = "HTTPError"
    /\ lastOp.val = PyStr("")
    /\ Len(lastOp.resp) = 2
    /\ lastOp.gets = 2
    /\ lastOp.list = <<>>
    /\ cache[lastOp.resp[1][1].uri] # 0

\* C26: reading a nested reference, or a list of them, on an object loads
\* that object if its root is unset and sends no other request; each object
\* returned is the one registered under the uri of its element, or a new
\* one; the root of an object that existed is left as it was, the root of a
\* new one is unset; the list follows the order of the elements in the
\* document.
C26_NestedNoFetch ==
    [][(lastOp'.op = "nested" /\ lastOp'.res = "ok") =>
          LET h    == lastOp'.h
              rd   == RefDescriptor[Obj(h).kind]
              uris == FindAllUris(RootOf(objects', h).refs, rd.tag)
              list == lastOp'.list
          IN
          /\ lastOp'.gets = (IF RootOf(objects, h).loaded THEN 0 ELSE 1)
          /\ lastOp'.gets = 1 => lastOp'.req = [method |-> "GET", uri |-> h[1],
                                                body |-> <<>>]
          /\ lastOp'.puts + lastOp'.posts = 0
          /\ IF rd.many THEN Len(list) = Len(uris) ELSE Len(list) = 1
          /\ \A i \in 1..Len(list) :
                /\ list[i] = <<uris[i], cache'[uris[i]]>>
                /\ list[i] \in Handles'
                /\ list[i] # h =>
                      IF list[i] \in Handles
                      THEN objects'[list[i][1]][list[i][2]] = Obj(list[i])
                      ELSE ~RootOf(objects', list[i]).loaded
          /\ \A g \in Handles \ {h} : objects'[g[1]][g[2]] = Obj(g)]_vars

\* a list of two references was read from an object that had to be loaded;
\* the objects come in document order and the new one has no root
C26_Witness ==
    /\ lastOp.op = "nested"
    /\ lastOp.res = "ok"
    /\ lastOp.gets = 1
    /\ Len(lastOp.list) = 2
    /\ lastOp.list[1][1] = SampleUri("2")
    /\ lastOp.list[2][1] = SampleUri("1")
    /\ ~RootOf(objects, lastOp.list[1]).loaded

\* C27: constructing an entity for a uri that is not in the cache registers
\* the new object under that uri at once, leaves its root unset and sends
\* no request; the objects a listing returns for uris not in the cache are
\* constructed this way, and a listing sets the root of no object.
C27_ConstructNew ==
    [][/\ (lastOp'.op \in ConstructOps /\ cache[lastOp'.h[1]] = 0) =>
             /\ lastOp'.h \in Handles'
             /\ cache' = [cache EXCEPT ![lastOp'.h[1]] = lastOp'.h[2]]
             /\ ~RootOf(objects', lastOp'.h).loaded
             /\ lastOp'.gets + lastOp'.puts + lastOp'.posts = 0
             /\ \A g \in Handles : objects'[g[1]][g[2]] = Obj(g)
       /\ lastOp'.op = "list" =>
             /\ \A i \in 1..Len(lastOp'.list) :
                   LET g == lastOp'.list[i] IN
                   /\ cache'[g[1]] = g[2]
                   /\ cache[g[1]] = 0 => ~RootOf(objects', g).loaded
             /\ \A g \in Handles : objects'[g[1]][g[2]] = Obj(g)
             /\ lastOp'.gets = Len(lastOp'.fetched)]_vars

\* a listing returned two objects, one of them new and without a root, the
\* other loaded before
C27_Witness ==
    /\ lastOp.op = "list"
    /\ lastOp.res = "ok"
    /\ Len(lastOp.list) = 2
    /\ \E i, j \in 1..2 :
          /\ ~RootOf(objects, lastOp.list[i]).loaded
          /\ RootOf(objects, lastOp.list[j]).loaded

(***************************************************************************)
(* One entity and its scalar descriptors: the entity is constructed by id, *)
(* and the server answers with documents in which each scalar element is   *)
(* absent, present, present twice or present without text.                 *)
(***************************************************************************)
ScalarUri(kind) == GetUri(ResourcePath[kind], "1")

NameTexts  == {<<>>, <<"n1">>, <<"n1", "n2">>}
WellsTexts == {<<>>, <<"12">>, <<"x">>, <<"">>}
FlagTexts  == {<<>>, <<"TRUE">>, <<"false">>, <<"">>}

ScalarDocs ==
    {Doc([NoScalars EXCEPT !["name"] = n, !["occupied-wells"] = w,
                           !["working-flag"] = f], <<>>, <<>>, <<>>) :
        n \in NameTexts, w \in WellsTexts, f \in FlagTexts}

\* the state after entity = Kind(lims, id='1')
InitScalar ==
    \E kind \in Kinds :
        /\ cache = [u \in URIs |-> IF u = ScalarUri(kind) THEN 1 ELSE 0]
        /\ objects = [u \in URIs |->
                        IF u = ScalarUri(kind)
                        THEN <<[kind |-> kind, root |-> NoTree]>>
                        ELSE <<>>]
        /\ desc = [d \in Descriptors |-> NoDict]
        /\ lastOp = [Outcome("construct_id", <<ScalarUri(kind), 1>>, "ok")
                        EXCEPT !.arg = kind]

ScalarGet == \E h \in HandleRefs, force \in BOOLEAN : Get(h, force, ScalarDocs)
ScalarPut == \E h \in HandleRefs : Put(h)
ScalarGetAttr ==
    \E h \in HandleRefs, tag \in ScalarTags : ScalarRead(h, tag, ScalarDocs)
ScalarSetAttr ==
    \E h \in HandleRefs, tag \in ScalarTags, text \in WriteTexts :
        ScalarWrite(h, tag, text)

NextScalar ==
    \/ ScalarGet
    \/ ScalarPut
    \/ ScalarGetAttr
    \/ ScalarSetAttr

SpecScalar == InitScalar /\ [][NextScalar]_vars

(***************************************************************************)
(* Properties of the scalar descriptors.                                   *)
(***************************************************************************)
\* C6: writing a scalar descriptor on an object whose root is unset first
\* fetches the root (one GET) and then applies the write to the fetched
\* tree: afterwards the root is set and the element has the text written.
C6_WriteFetches ==
    [][(lastOp'.op = "write" /\ ~RootOf(objects, lastOp'.h).loaded) =>
          /\ lastOp'.gets = 1
          /\ RootOf(objects', lastOp'.h).loaded
          /\ lastOp'.res = "ok" =>
                get_node(RootOf(objects', lastOp'.h), lastOp'.arg)
                    = <<lastOp'.val.s>>]_vars

\* C7: on a loaded object, reading a string, integer or boolean descriptor
\* whose element is absent returns None and changes nothing; writing one
\* whose element is absent raises AttributeError and leaves the root as it
\* was; writing one whose element is present sets the text of that element
\* to the value and changes nothing else.
C7_ScalarAsymmetry ==
    [][(lastOp'.op \in {"read", "write"} /\ RootOf(objects, lastOp'.h).loaded) =>
          LET h    == lastOp'.h
              tag  == lastOp'.arg
              root == RootOf(objects, h)
          IN
          /\ (lastOp'.op = "read" /\ root.scalars[tag] = <<>>) =>
                /\ lastOp'.res = "ok"
                /\ lastOp'.val = PyNone
                /\ lastOp'.gets = 0
                /\ objects' = objects
          /\ (lastOp'.op = "write" /\ root.scalars[tag] = <<>>) =>
                /\ lastOp'.res = "AttributeError"
                /\ objects' = objects
          /\ (lastOp'.op = "write" /\ root.scalars[tag] # <<>>) =>
                /\ lastOp'.res = "ok"
                /\ objects' = [objects EXCEPT ![h[1]][h[2]].root.scalars[tag][1] =
                                                 lastOp'.val.s]
          /\ cache' = cache
          /\ desc' = desc]_vars

\* the integer descriptor of a loaded container was written while the
\* document had no occupied-wells element, and the assignment raised
C7_Witness ==
    /\ lastOp.op = "write"
    /\ lastOp.arg = "occupied-wells"
    /\ lastOp.res = "AttributeError"
    /\ Obj(lastOp.h).kind = "Container"
    /\ RootOf(objects, lastOp.h).loaded
    /\ RootOf(objects, lastOp.h).scalars["occupied-wells"] = <<>>
    /\ RootOf(objects, lastOp.h).scalars["name"] # <<>>

(***************************************************************************)
(* UdfDictionary.  A dictionary is the record                              *)
(*   instance  the Entity object it was built for                          *)
(*   udt       _udt: False, True or the name of the UDT                    *)
(*   elems     _elems: references to udf:field elements                    *)
(*   lookup    _lookup: key -> value, Missing where the key is not in it   *)
(* The dictionaries that exist are those kept by the descriptors.          *)
(***************************************************************************)
\* the field names used as keys
UdfKeys == {"f1", "f2", "Queued"}
\* a key that is not in _lookup
Missing == [k |-> "missing", n |-> 0, s |-> ""]
\* int(), float() or strptime() raised ValueError
DecodeError == [k |-> "error", n |-> 0, s |-> "ValueError"]

\* the floats float() is applied to the text of
FloatRange == {PyFloat(n, "5") : n \in 0..9}
IsFloatText(s) == \E v \in FloatRange : PyStrOf(v) = s
ParseFloat(s) == CHOOSE v \in FloatRange : PyStrOf(v) = s
\* the dates strptime(value, "%Y-%m-%d") is applied to the text of
DateRange == {PyDate(2012, m, d) : m \in 1..2, d \in 1..2}
IsDateText(s) == \E v \in DateRange : PyStrOf(v) = s
ParseDate(s) == CHOOSE v \in DateRange : PyStrOf(v) = s

\* _prepare_lookup: the value of an element with the given type and text
Decode(type, text) ==
    IF text = "" THEN PyNone
    ELSE IF Lower(type) = "numeric"
         THEN IF IsIntText(text) THEN PyInt(ParseInt(text))
              ELSE IF IsFloatText(text) THEN ParseFloat(text)
              ELSE DecodeError
    ELSE IF Lower(type) = "boolean" THEN PyBool(text = "true")
    ELSE IF Lower(type) = "date"
         THEN IF IsDateText(text) THEN ParseDate(text) ELSE DecodeError
    ELSE PyStr(text)

\* _update_elems: _udt and _elems for the root
UpdateElems(root, udt) ==
    IF Truthy(udt)
    THEN IF root.udt = <<>>
         THEN [udt |-> udt, elems |-> <<>>]
         ELSE [udt   |-> PyStr(root.udt[1].name),
               elems |-> [i \in 1..Len(root.udt[1].fields) |->
                             AttachedRef(TRUE, i)]]
    ELSE [udt   |-> udt,
          elems |-> [i \in 1..Len(root.fields) |-> AttachedRef(FALSE, i)]]

\* _prepare_lookup: the elements in order, a later one of the same name
\* replacing the value of an earlier one
RECURSIVE PrepareLookup(_, _, _)
PrepareLookup(elems, root, lookup) ==
    IF elems = <<>> THEN lookup
    ELSE LET e == ElemOf(Head(elems), root) IN
         PrepareLookup(Tail(elems), root,
                       [lookup EXCEPT ![e.name] = Decode(e.type, e.text)])

\* whether _prepare_lookup raises
PrepareFails(elems, root) ==
    \E i \in 1..Len(elems) :
        Decode(ElemOf(elems[i], root).type, ElemOf(elems[i], root).text)
            = DecodeError

\* UdfDictionary(instance, udt=udt)
UdfDictionaryNew(h, root, udt) ==
    LET u == UpdateElems(root, udt) IN
    [set      |-> TRUE,
     instance |-> h,
     udt      |-> u.udt,
     elems    |-> u.elems,
     lookup   |-> PrepareLookup(u.elems, root, [k \in UdfKeys |-> Missing])]

\* the _UDT of the descriptor class of an attribute
UdtFlag(attr) == PyBool(attr = "udt")

\* UdfDictionaryDescriptor.__get__: entity.udf, entity.udt
UdfDescriptorGet(h, attr, docs) ==
    /\ h \in Handles
    /\ <<Obj(h).kind, attr>> \in Descriptors
    /\ LET dk == <<Obj(h).kind, attr>> IN
       IF desc[dk].set
       THEN \* self.value exists: it is returned as it is
            /\ lastOp' = [Outcome("udf", h, "ok") EXCEPT !.dict = dk]
            /\ UNCHANGED <<cache, objects, desc>>
       ELSE \E doc \in Answers(Obj(h), FALSE, docs) :
              LET o     == EntityGet(Obj(h), UriOf(h), FALSE, doc)
                  u     == UpdateElems(o.root, UdtFlag(attr))
                  fails == PrepareFails(u.elems, o.root)
              IN
              /\ objects' = [objects EXCEPT ![h[1]][h[2]] = o]
              /\ desc' = IF fails THEN desc
                         ELSE [desc EXCEPT ![dk] =
                                 UdfDictionaryNew(h, o.root, UdtFlag(attr))]
              /\ lastOp' = [WithGet(Outcome("udf", h,
                                            IF fails THEN "ValueError" ELSE "ok"),
                                    h, FALSE, doc)
                              EXCEPT !.dict = dk]
              /\ UNCHANGED cache

\* UdfDictionary.__getitem__
UdfGetItem(dk, key) ==
    /\ dk \in Descriptors
    /\ desc[dk].set
    /\ lastOp' = IF desc[dk].lookup[key] = Missing
                 THEN [Outcome("getitem", desc[dk].instance, "KeyError")
                         EXCEPT !.dict = dk, !.arg = key]
                 ELSE [Outcome("getitem", desc[dk].instance, "ok")
                         EXCEPT !.dict = dk, !.arg = key,
                                !.val = desc[dk].lookup[key]]
    /\ UNCHANGED <<cache, objects, desc>>

\* the index in _elems of the first element named key, 0 when there is none
FindElem(d, root, key) ==
    LET S == {i \in 1..Len(d.elems) : ElemOf(d.elems[i], root).name = key} IN
    IF S = {} THEN 0 ELSE CHOOSE i \in S : \A j \in S : i <= j

\* __setitem__, an element exists: the text written for a value, by the
\* lower-cased type of the element, or the exception raised
TextFor(type, value) ==
    IF value = PyNone
    THEN \* unicode(None, 'UTF-8')
         [res |-> "TypeError", text |-> ""]
    ELSE IF type \in {"string", "text"}
         THEN IF IsBasestring(value)
              THEN [res |-> "ok", text |-> value.s]
              ELSE [res |-> "TypeError", text |-> ""]
    ELSE IF type = "numeric"
         THEN IF IsIntOrFloat(value)
              THEN [res |-> "ok", text |-> PyStrOf(value)]
              ELSE [res |-> "TypeError", text |-> ""]
    ELSE IF type = "boolean"
         THEN IF IsBool(value)
              THEN [res |-> "ok", text |-> IF value.n = 1 THEN "True" ELSE "False"]
              ELSE [res |-> "TypeError", text |-> ""]
    ELSE IF type = "date"
         THEN IF IsDate(value)
              THEN [res |-> "ok", text |-> PyStrOf(value)]
              ELSE [res |-> "TypeError", text |-> ""]
    ELSE \* raise NotImplemented(...): NotImplemented is not callable
         [res |-> "TypeError", text |-> ""]

\* __setitem__, no element exists: the type chosen for the value, "" when
\* no branch of the heuristics applies
InferType(value) ==
    IF IsBasestring(value)
    THEN IF HasNewline(value.s) THEN "Text" ELSE "String"
    ELSE IF IsIntOrFloat(value) THEN "Numeric"
    ELSE IF IsBool(value) THEN "Boolean"
    ELSE IF IsDate(value) THEN "Date"
    ELSE ""

\* __setitem__, no element exists: the exception the branch ends with.
\* type(value) reads the local name type, which is not bound; the parent
\* of the new element is looked up through self._instance, an attribute
\* the dictionary does not have.
CreateResult(d, value) ==
    IF InferType(value) = "" THEN "UnboundLocalError"
    ELSE IF Truthy(d.udt) THEN "AttributeError"
    ELSE "AttributeError"

\* node.text = text for the element a reference refers to
SetText(root, ref, text) ==
    IF ref.inUdt
    THEN [root EXCEPT !.udt[1].fields[ref.pos].text = text]
    ELSE [root EXCEPT !.fields[ref.pos].text = text]

\* __setitem__: the dictionary and the root of its instance afterwards, and
\* the exception raised
SetItemResult(d, root, key, value) ==
    LET d1 == [d EXCEPT !.lookup[key] = value]
        i  == FindElem(d, root, key)
    IN
    IF i # 0
    THEN LET t == TextFor(Lower(ElemOf(d.elems[i], root).type), value) IN
         IF t.res # "ok"
         THEN [dict |-> d1, root |-> root, res |-> t.res]
         ELSE IF d.elems[i].att
         THEN [dict |-> d1, root |-> SetText(root, d.elems[i], t.text),
               res |-> "ok"]
         ELSE [dict |-> [d1 EXCEPT !.elems[i].el.text = t.text],
               root |-> root, res |-> "ok"]
    ELSE [dict |-> d1, root |-> root, res |-> CreateResult(d, value)]

\* UdfDictionary.__setitem__
UdfSetItem(dk, key, value) ==
    /\ dk \in Descriptors
    /\ desc[dk].set
    /\ LET d == desc[dk]
           h == d.instance
           r == SetItemResult(d, Obj(h).root, key, value)
       IN
       /\ desc' = [desc EXCEPT ![dk] = r.dict]
       /\ objects' = [objects EXCEPT ![h[1]][h[2]].root = r.root]
       /\ lastOp' = [Outcome("setitem", h, r.res)
                       EXCEPT !.dict = dk, !.arg = key, !.val = value]
    /\ UNCHANGED cache

\* UdfDictionary.__delitem__: del self._lookup[key] raises KeyError for a
\* key that is not in it; for an element named key the removal goes
\* through self._instance, an attribute the dictionary does not have
UdfDelItem(dk, key) ==
    /\ dk \in Descriptors
    /\ desc[dk].set
    /\ LET d == desc[dk]
           h == d.instance
           res == IF d.lookup[key] = Missing THEN "KeyError"
                  ELSE IF FindElem(d, Obj(h).root, key) # 0 THEN "AttributeError"
                  ELSE "ok"
       IN
       /\ desc' = IF d.lookup[key] = Missing THEN desc
                  ELSE [desc EXCEPT ![dk].lookup[key] = Missing]
       /\ lastOp' = [Outcome("delitem", h, res) EXCEPT !.dict = dk, !.arg = key]
    /\ UNCHANGED <<cache, objects>>

\* UdfDictionary.items, as the set of the (key, value) pairs
items(d) == {<<k, d.lookup[k]>> : k \in {x \in UdfKeys : d.lookup[x] # Missing}}

\* the elements of a sequence at the positions that are not in P
RECURSIVE Without(_, _, _)
Without(seq, P, i) ==
    IF i > Len(seq) THEN <<>>
    ELSE (IF i \in P THEN <<>> ELSE <<seq[i]>>) \o Without(seq, P, i + 1)

\* whether self.instance.root.remove(elem) finds the element: it has to be
\* a child of the root itself
IsChildOfRoot(ref) == ref.att /\ ~ref.inUdt

\* UdfDictionary.clear: root.remove for every element of _elems, then
\* _update_elems; _lookup is not touched.  remove raises ValueError for
\* an element that is not a child of the root (one inside udf:type, or one
\* of a tree that was replaced), before anything is changed.
UdfClear(dk) ==
    /\ dk \in Descriptors
    /\ desc[dk].set
    /\ LET d    == desc[dk]
           h    == d.instance
           root == Obj(h).root
           ok   == \A i \in 1..Len(d.elems) : IsChildOfRoot(d.elems[i])
           root2 == [root EXCEPT !.fields =
                       Without(@, {d.elems[i].pos : i \in 1..Len(d.elems)}, 1)]
           u    == UpdateElems(root2, d.udt)
       IN
       /\ objects' = IF ok THEN [objects EXCEPT ![h[1]][h[2]].root = root2]
                     ELSE objects
       /\ desc' = IF ok THEN [desc EXCEPT ![dk].udt = u.udt, ![dk].elems = u.elems]
                  ELSE desc
       /\ lastOp' = [Outcome("clear", h, IF ok THEN "ok" ELSE "ValueError")
                       EXCEPT !.dict = dk]
    /\ UNCHANGED cache

\* UdfDictionary.get_udt: the value of the property udt
get_udt(d) == IF d.udt = PyBool(TRUE) THEN PyNone ELSE d.udt

\* UdfDictionary.set_udt: dictionary.udt = name, name a string
set_udt(dk, name) ==
    /\ dk \in Descriptors
    /\ desc[dk].set
    /\ LET d    == desc[dk]
           h    == d.instance
           root == Obj(h).root
       IN
       IF ~Truthy(d.udt)
       THEN /\ lastOp' = [Outcome("set_udt", h, "AttributeError")
                            EXCEPT !.dict = dk, !.val = PyStr(name)]
            /\ UNCHANGED <<objects, desc>>
       ELSE /\ desc' = [desc EXCEPT ![dk].udt = PyStr(name)]
            /\ objects' = IF root.udt = <<>> THEN objects
                          ELSE [objects EXCEPT
                                  ![h[1]][h[2]].root.udt[1].name = name]
            /\ lastOp' = [Outcome("set_udt", h,
                                  IF root.udt = <<>> THEN "AssertionError"
                                  ELSE "ok")
                            EXCEPT !.dict = dk, !.val = PyStr(name)]
    /\ UNCHANGED cache

(***************************************************************************)
(* One sample and one of its dictionaries: the sample is constructed by    *)
(* id, and the server answers with documents that carry a field f1 of one  *)
(* of the five types, under the root and under the udf:type element.       *)
(***************************************************************************)
UdfHandle == <<SampleUri("1"), 1>>

\* a field f1 of each type, with a text of that type
TypedFields ==
    {Field("f1", "String", "old"), Field("f1", "Text", "old\ntext"),
     Field("f1", "Numeric", "42"), Field("f1", "Boolean", "true"),
     Field("f1", "Date", "2012-01-01")}

UdfDocs ==
    {Doc([NoScalars EXCEPT !["name"] = <<"n1">>], <<>>, <<f>>,
         <<[name |-> "T", fields |-> <<f>>]>>) : f \in TypedFields}
    \cup {DocPlain,
          Doc(NoScalars, <<>>, <<>>, <<[name |-> "T", fields |-> <<>>]>>),
          Doc(NoScalars, <<>>, <<Field("f1", "Numeric", "True")>>, <<>>),
          DocRich}

\* the values assigned to a key
UdfValues ==
    {PyStr("hello"), PyStr("multi\nline"), PyInt(5), PyFloat(2, "5"),
     PyBool(TRUE), PyDate(2012, 1, 2), PyNone, PyObject}

\* the state after sample = Sample(lims, id='1')
InitUdf ==
    /\ cache = [u \in URIs |-> IF u = UriOf(UdfHandle) THEN 1 ELSE 0]
    /\ objects = [u \in URIs |->
                    IF u = UriOf(UdfHandle)
                    THEN <<[kind |-> "Sample", root |-> NoTree]>>
                    ELSE <<>>]
    /\ desc = [d \in Descriptors |-> NoDict]
    /\ lastOp = [Outcome("construct_id", UdfHandle, "ok") EXCEPT !.arg = "Sample"]

\* the session works through one dictionary of the sample
UdfAttr ==
    \E attr \in {"udf", "udt"} :
        /\ \A dk \in Descriptors : desc[dk].set => dk = <<"Sample", attr>>
        /\ UdfDescriptorGet(UdfHandle, attr, UdfDocs)
\* the keys used with the dictionary of the sample
SampleKeys == {"f1", "f2"}
UdfGet ==
    \E dk \in Descriptors, key \in SampleKeys : UdfGetItem(dk, key)
UdfSet ==
    \E dk \in Descriptors, key \in SampleKeys, value \in UdfValues :
        UdfSetItem(dk, key, value)
\* the documents a forced reload is answered with
ReloadDocs == {DocPlain, DocRich}
UdfLoad ==
    \/ Get(UdfHandle, FALSE, UdfDocs)
    \/ Get(UdfHandle, TRUE, ReloadDocs)
UdfPut == Put(UdfHandle)
\* the names assigned to the property udt
UdtNames == {"U"}

NextUdf ==
    \/ UdfAttr
    \/ UdfGet
    \/ UdfSet
    \/ UdfLoad
    \/ UdfPut
    \/ \E dk \in Descriptors, key \in SampleKeys : UdfDelItem(dk, key)
    \/ \E dk \in Descriptors : UdfClear(dk)
    \/ \E dk \in Descriptors, name \in UdtNames : set_udt(dk, name)

SpecUdf == InitUdf /\ [][NextUdf]_vars

(***************************************************************************)
(* Properties of the UDF dictionary.                                       *)
(***************************************************************************)
\* the values of the supported kinds: single-line string, string with a
\* newline, integer, float, boolean, date
SupportedValues == {v \in UdfValues : v.k \in {"str", "int", "float", "bool", "date"}}

\* the type tag that goes with the kind of a value
TagOf(v) ==
    CASE v.k = "str"              -> IF HasNewline(v.s) THEN "Text" ELSE "String"
      [] v.k \in {"int", "float"} -> "Numeric"
      [] v.k = "bool"             -> "Boolean"
      [] v.k = "date"             -> "Date"
      [] OTHER                    -> ""

\* the text of an element is the encoding of the value
TextAgrees(text, v) ==
    IF v.k = "bool"
    THEN Lower(text) = (IF v.n = 1 THEN "true" ELSE "false")
    ELSE text = PyStrOf(v)

\* the dictionary tracks no element named key, or only elements whose type
\* tag goes with the kind of the value
AbsentOrMatching(d, root, key, v) ==
    \A i \in 1..Len(d.elems) :
        ElemOf(d.elems[i], root).name = key =>
            ElemOf(d.elems[i], root).type = TagOf(v)

\* C8: UDF round trip.  Setting a key to a value of a supported kind
\* succeeds whenever the dictionary has no element of that name or has one
\* whose type tag goes with the value, and a get of the key that follows
\* the set on the same dictionary returns the value.
C8_UdfRoundTrip ==
    [][/\ (/\ lastOp'.op = "setitem"
           /\ lastOp'.val \in SupportedValues
           /\ AbsentOrMatching(desc[lastOp'.dict],
                               RootOf(objects, desc[lastOp'.dict].instance),
                               lastOp'.arg, lastOp'.val))
          => lastOp'.res = "ok"
       /\ (/\ lastOp.op = "setitem"
           /\ lastOp.res = "ok"
           /\ lastOp.val \in SupportedValues
           /\ lastOp'.op = "getitem"
           /\ lastOp'.dict = lastOp.dict
           /\ lastOp'.arg = lastOp.arg)
          => (lastOp'.res = "ok" /\ lastOp'.val = lastOp.val)]_vars

\* C9: UDF type enforcement.  Setting a key whose element has the type tag
\* Numeric to a boolean, or one whose element has the type tag Boolean to
\* a value that is not a boolean, raises TypeError and writes nothing: the
\* text of every element stays as it was.
C9_UdfTypeEnforcement ==
    [][lastOp'.op = "setitem" =>
          LET d    == desc[lastOp'.dict]
              root == RootOf(objects, d.instance)
              i    == FindElem(d, root, lastOp'.arg)
              type == Lower(ElemOf(d.elems[i], root).type)
          IN
          (/\ i # 0
           /\ \/ type = "numeric" /\ lastOp'.val.k = "bool"
              \/ type = "boolean" /\ lastOp'.val.k # "bool")
          => /\ lastOp'.res = "TypeError"
             /\ objects' = objects
             /\ desc'[lastOp'.dict].elems = d.elems]_vars

\* C10: setting a key the dictionary has not seen to a value of a supported
\* kind adds exactly one udf:field element, named by the key, with the type
\* tag that goes with the value and the encoded value as its text, at the
\* end of the children of the udf:type element when the dictionary is that
\* of a UDT, and of the root otherwise.
C10_UdfCreate ==
    [][lastOp'.op = "setitem" =>
          LET d      == desc[lastOp'.dict]
              root   == RootOf(objects, d.instance)
              inUdt  == Truthy(d.udt)
              before == RegionFields(root, inUdt)
              after  == RegionFields(RootOf(objects', d.instance), inUdt)
          IN
          (/\ lastOp'.val \in SupportedValues
           /\ d.lookup[lastOp'.arg] = Missing
           /\ FindElem(d, root, lastOp'.arg) = 0
           /\ inUdt => root.udt # <<>>)
          => /\ lastOp'.res = "ok"
             /\ Len(after) = Len(before) + 1
             /\ SubSeq(after, 1, Len(before)) = before
             /\ after[Len(after)].name = lastOp'.arg
             /\ after[Len(after)].type = TagOf(lastOp'.val)
             /\ TextAgrees(after[Len(after)].text, lastOp'.val)]_vars

(***************************************************************************)
(* Fetch, mutate and save: a project is constructed by id, its name and    *)
(* its UDF dictionary are read, the key Queued is set and the project is   *)
(* put.  The document of the project has no field Queued, or one of type   *)
(* Date or String.                                                         *)
(***************************************************************************)
ProjectHandle == <<GetUri(ResourcePath["Project"], "1"), 1>>

ProjectDocs ==
    {Doc([NoScalars EXCEPT !["name"] = <<"p1">>], <<>>, fs, <<>>) :
        fs \in {<<>>,
                <<Field("Queued", "Date", "2012-01-01")>>,
                <<Field("Queued", "String", "soon")>>,
                <<Field("f1", "Numeric", "42"), Field("Queued", "Date", "")>>}}

\* the values assigned to the key Queued
ProjectValues == {PyDate(2012, 1, 2), PyStr("hello"), PyNone}

NextProject ==
    \/ Construct("Project", UriOf(ProjectHandle), TRUE)
    \/ ScalarRead(ProjectHandle, "name", ProjectDocs)
    \/ UdfDescriptorGet(ProjectHandle, "udf", ProjectDocs)
    \/ UdfGetItem(<<"Project", "udf">>, "Queued")
    \/ \E value \in ProjectValues :
          UdfSetItem(<<"Project", "udf">>, "Queued", value)
    \/ Put(ProjectHandle)

SpecProject == Init /\ [][NextProject]_vars

\* the date assigned in the scenario: datetime.date(2012, 1, 2)
QueuedDate == PyDate(2012, 1, 2)

\* C11: fetch, mutate, save.  Reading name on the project constructed by
\* id sends exactly one GET; setting udf['Queued'] to the date 2012-01-02
\* succeeds without a request; the put that follows sends no GET and
\* exactly one PUT, whose body holds a udf:field element named Queued with
\* type Date and text 2012-01-02.
C11_FetchMutateSave ==
    [][/\ (/\ lastOp'.op = "read"
           /\ lastOp'.arg = "name"
           /\ ~RootOf(objects, lastOp'.h).loaded)
          => lastOp'.gets = 1
       /\ (/\ lastOp'.op = "setitem"
           /\ lastOp'.arg = "Queued"
           /\ lastOp'.val = QueuedDate)
          => (lastOp'.res = "ok" /\ lastOp'.gets = 0)
       /\ (/\ lastOp.op = "setitem"
           /\ lastOp.arg = "Queued"
           /\ lastOp.val = QueuedDate
           /\ lastOp'.op = "put")
          => /\ lastOp'.res = "ok"
             /\ lastOp'.gets = 0
             /\ lastOp'.puts = 1
             /\ \E k \in 1..Len(lastOp'.req.body) :
                   lastOp'.req.body[k] =
                       Tok("udf:field", "Queued", "Date", "", "2012-01-02")]_vars

\* C12: setting a key the dictionary has not seen to a value that is not a
\* string, integer, float, boolean or date raises NotImplementedError (the
\* unsupported-type error) and creates no element: the tree stays as it
\* was.
C12_UdfUnsupported ==
    [][lastOp'.op = "setitem" =>
          LET d    == desc[lastOp'.dict]
              root == RootOf(objects, d.instance)
          IN
          (/\ lastOp'.val \notin SupportedValues
           /\ d.lookup[lastOp'.arg] = Missing
           /\ FindElem(d, root, lastOp'.arg) = 0)
          => /\ lastOp'.res = "NotImplementedError"
             /\ objects' = objects]_vars

\* the names of the udf:field elements in the part of the tree of a
\* dictionary: the children of udf:type for a UDT dictionary, of the root
\* otherwise
RegionNames(root, d) ==
    LET fs == RegionFields(root, Truthy(d.udt)) IN
    {fs[i].name : i \in 1..Len(fs)}

\* C13: delete of a key the dictionary knows succeeds and removes both the
\* entry of the decoded cache and the udf:field element of that name from
\* the tree (so that a get of the key raises KeyError and a put does not
\* send the field), for plain and for UDT dictionaries; delete of a key
\* the dictionary does not know raises KeyError and changes neither the
\* dictionary nor the tree.
C13_UdfDelete ==
    [][lastOp'.op = "delitem" =>
          LET dk   == lastOp'.dict
              d    == desc[dk]
              key  == lastOp'.arg
          IN
          /\ d.lookup[key] # Missing =>
                /\ lastOp'.res = "ok"
                /\ desc'[dk].lookup[key] = Missing
                /\ key \notin RegionNames(RootOf(objects', d.instance), d)
          /\ d.lookup[key] = Missing =>
                /\ lastOp'.res = "KeyError"
                /\ desc' = desc
                /\ objects' = objects]_vars

\* C14: clear succeeds, for plain and for UDT dictionaries, and afterwards
\* none of the elements the dictionary tracked is in the tree, the list of
\* tracked elements is empty, items() is empty and every key is unknown.
C14_UdfClear ==
    [][lastOp'.op = "clear" =>
          LET dk == lastOp'.dict
              d  == desc[dk]
              tracked == {ElemOf(d.elems[i], RootOf(objects, d.instance)).name :
                             i \in 1..Len(d.elems)}
          IN
          /\ lastOp'.res = "ok"
          /\ tracked \cap RegionNames(RootOf(objects', d.instance), d) = {}
          /\ desc'[dk].elems = <<>>
          /\ items(desc'[dk]) = {}
          /\ \A k \in UdfKeys : desc'[dk].lookup[k] = Missing]_vars

\* C15: a UDT dictionary built for a tree with a udf:type element has the
\* name of that element as its scope name; assigning a scope name to a
\* dictionary that has one already is rejected, and the scope name stays
\* as it was in the dictionary and in the tree.
C15_UdtScope ==
    [][/\ (/\ lastOp'.op = "udf"
           /\ lastOp'.res = "ok"
           /\ lastOp'.dict[2] = "udt"
           /\ ~desc[lastOp'.dict].set
           /\ RootOf(objects', lastOp'.h).udt # <<>>)
          => get_udt(desc'[lastOp'.dict])
                = PyStr(RootOf(objects', lastOp'.h).udt[1].name)
       /\ (/\ lastOp'.op = "set_udt"
           /\ get_udt(desc[lastOp'.dict]).k = "str")
          => /\ lastOp'.res # "ok"
             /\ desc' = desc
             /\ objects' = objects]_vars

\* C25: the text __setitem__ stores agrees with the decoding of
\* _prepare_lookup.  After a set of a key to a value of a supported kind
\* has written the element of that name, whose type tag goes with the
\* value, decoding the text of the element by its type tag gives the value
\* back; a Boolean element set to True decodes to True.
C25_StoredTextDecodes ==
    [][(/\ lastOp'.op = "setitem"
        /\ lastOp'.res = "ok"
        /\ lastOp'.val \in SupportedValues)
       => LET d    == desc'[lastOp'.dict]
              root == RootOf(objects', d.instance)
              i    == FindElem(d, root, lastOp'.arg)
              elem == ElemOf(d.elems[i], root)
          IN
          (i # 0 /\ elem.type = TagOf(lastOp'.val))
          => Decode(elem.type, elem.text) = lastOp'.val]_vars

(***************************************************************************)
(* Lims._get_params, Lims._get_params_udf.  A name is the sequence of its  *)
(* characters; a dictionary is a function from its keys to their values.   *)
(***************************************************************************)
\* a _get_params that keeps the filters whose value is None
GetParamsKeepsNone(kwargs) ==
    LET replace(key) == [i \in 1..Len(key) |->
                            IF key[i] = "_" THEN "-" ELSE key[i]]
    IN [key \in {replace(k) : k \in DOMAIN kwargs} |->
           kwargs[CHOOSE k \in DOMAIN kwargs : replace(k) = key]]

\* Lims._get_params(**kwargs)
GetParams(kwargs) ==
    LET replace(key) == [i \in 1..Len(key) |->
                            IF key[i] = "_" THEN "-" ELSE key[i]]
        kept == {k \in DOMAIN kwargs : kwargs[k] # PyNone}
    IN [key \in {replace(k) : k \in kept} |->
           kwargs[CHOOSE k \in kept : replace(k) = key]]

\* Lims._get_params_udf(udf, udtname, udt): the three groups are assigned in
\* this order, a later assignment to a key replacing an earlier one
GetParamsUdf(udf, udtname, udt) ==
    LET udfKey(k) == <<"u", "d", "f", ".">> \o k
        udtKey(k) == <<"u", "d", "t", ".">> \o k
        fromUdf == [key \in {udfKey(k) : k \in DOMAIN udf} |->
                       udf[CHOOSE k \in DOMAIN udf : udfKey(k) = key]]
        fromName == IF udtname # PyNone
                    THEN (<<"u", "d", "t", ".", "n", "a", "m", "e">> :> udtname)
                    ELSE <<>>
        fromUdt == [key \in {udtKey(k) : k \in DOMAIN udt} |->
                       udt[CHOOSE k \in DOMAIN udt : udtKey(k) = key]]
    IN fromUdt @@ fromName @@ fromUdf

\* the arguments of get_labs: the named filters name, last_modified and
\* start_index, each None or given; a udf dictionary; a UDT name or None;
\* a udt dictionary
ParamInputs ==
    LET name         == <<"n", "a", "m", "e">>
        lastModified == <<"l", "a", "s", "t", "_", "m", "o", "d", "i", "f", "i", "e", "d">>
        startIndex   == <<"s", "t", "a", "r", "t", "_", "i", "n", "d", "e", "x">>
    IN [kwargs  : [{name, lastModified, startIndex} -> {PyNone, PyStr("x")}],
        udf     : {<<>>, <<"f", "1">> :> PyStr("y")},
        udtname : {PyNone, PyStr("T")},
        udt     : {<<>>, <<"n", "a", "m", "e">> :> PyStr("x"),
                   <<"T", ".", "f", "1">> :> PyStr("x")}]

(***************************************************************************)
(* Lims.parse_response, Lims.check_version.  A response is its status code *)
(* and its content: whether it parses as XML, the tag of the root, the     *)
(* texts of the message and suggested-actions children (no element, or one *)
(* element with its text, "" for an element without text) and the major    *)
(* attributes of the version children ("" for a child without one).        *)
(***************************************************************************)
\* response.raise_for_status() of the requests library: HTTPError for a
\* status from 400 to 599, nothing otherwise
RaiseForStatus(status) ==
    IF status >= 400 /\ status < 500 THEN <<ToString(status) \o " Client Error">>
    ELSE IF status >= 500 /\ status < 600 THEN <<ToString(status) \o " Server Error">>
    ELSE <<>>

\* Lims.parse_response(response): the exception raised and its message, or
\* "ok" when root is returned
ParseResponse(response) ==
    IF ~response.parses
    THEN \* ElementTree.fromstring(response.content)
         [res |-> "ParseError", msg |-> ""]
    ELSE IF response.status = 200 THEN [res |-> "ok", msg |-> ""]
    ELSE IF response.message = <<>>
    THEN IF RaiseForStatus(response.status) # <<>>
         THEN [res |-> "HTTPError", msg |-> RaiseForStatus(response.status)[1]]
         ELSE \* node is None: node.text
              [res |-> "AttributeError", msg |-> ""]
    ELSE LET text    == IF response.message[1] = "" THEN "None"
                        ELSE response.message[1]
             message == ToString(response.status) \o ": " \o text
         IN
         IF response.suggested = <<>>
         THEN [res |-> "HTTPError", msg |-> message]
         ELSE IF response.suggested[1] = ""
         THEN \* ' ' + None
              [res |-> "TypeError", msg |-> ""]
         ELSE [res |-> "HTTPError",
               msg |-> message \o " " \o response.suggested[1]]

\* a check_version that looks at the first version element only
CheckVersionFirst(response) ==
    LET r == ParseResponse(response) IN
    IF r.res # "ok" THEN r
    ELSE IF response.tag # "ver:versions" THEN [res |-> "AssertionError", msg |-> ""]
    ELSE IF response.versions # <<>> /\ response.versions[1] = VERSION
    THEN [res |-> "ok", msg |-> ""]
    ELSE [res |-> "ValueError", msg |-> "version mismatch"]

\* Lims.check_version() when the GET is answered with response
CheckVersion(response) ==
    LET r       == ParseResponse(response)
        majors  == response.versions
        matches == {i \in 1..Len(majors) : majors[i] = VERSION}
        \* node.attrib['major'] of an element without the attribute
        bare    == {i \in 1..Len(majors) : majors[i] = ""}
    IN
    IF r.res # "ok" THEN r
    ELSE IF response.tag # "ver:versions" THEN [res |-> "AssertionError", msg |-> ""]
    ELSE IF \E i \in matches : \A j \in bare : i < j
    THEN [res |-> "ok", msg |-> ""]
    ELSE IF bare # {} THEN [res |-> "KeyError", msg |-> "major"]
    ELSE [res |-> "ValueError", msg |-> "version mismatch"]

\* the responses of the server
Responses ==
    LET texts == {<<>>, <<"">>, <<"gone">>} IN
    [status : {200, 201, 404, 500}, parses : {TRUE}, tag : {"exc:exception"},
     message : texts, suggested : texts, versions : {<<>>}]
    \cup [status : {200, 201, 404, 500}, parses : {FALSE}, tag : {""},
          message : {<<>>}, suggested : {<<>>}, versions : {<<>>}]
    \cup [status : {200, 404}, parses : {TRUE}, tag : {"ver:versions", "ri:index"},
          message : {<<>>}, suggested : {<<>>},
          versions : {<<>>, <<"v1">>, <<"v2">>, <<"v2", "v1">>, <<"v1", "v2">>,
                      <<"", "v1">>, <<"v0", "v2">>}]

\* The calls on Lims itself.  get_labs: params = _get_params(...);
\* params.update(_get_params_udf(...)); return _get_instances(Lab,
\* params=params), the listing being answered with the chain pages (one
\* page without a lab, one page, or two pages); every GET of the listing
\* carries params.  parse_response.  check_version.
NextLims ==
    \/ \E in \in ParamInputs,
          pages \in {<<<<>>>>, <<PageOf("Lab", <<"1">>)>>,
                     <<PageOf("Lab", <<"1">>), PageOf("Lab", <<"2">>)>>} :
          LET params     == GetParamsUdf(in.udf, in.udtname, in.udt)
                                @@ GetParams(in.kwargs)
              key        == <<"s", "t", "a", "r", "t", "-", "i", "n", "d", "e", "x">>
              \* params.get('start-index'), "" for None
              startIndex == IF key \in DOMAIN params THEN params[key].s ELSE ""
              uris       == FindAllUris(Flatten(PagesRead(pages, startIndex)),
                                        ListTag["Lab"])
              r          == ConstructAll("Lab", uris, cache, objects)
          IN
          /\ cache' = r.cache
          /\ objects' = r.objects
          /\ lastOp' = [Outcome("get_labs", NoHandle, "ok") EXCEPT
                          !.arg = "Lab",
                          !.val = params,
                          !.list = r.list,
                          !.gets = PagesFetched(pages, startIndex),
                          !.fetched = FetchOrder(pages, startIndex),
                          !.req = [method |-> "GET",
                                   uri    |-> BaseUri \o "api" \o "/" \o VERSION
                                                  \o "/" \o ResourcePath["Lab"],
                                   body   |-> <<>>],
                          !.resp = [pages |-> pages] @@ in]
          /\ UNCHANGED desc
    \/ \E response \in Responses :
          /\ lastOp' = [Outcome("parse_response", NoHandle,
                                ParseResponse(response).res) EXCEPT
                          !.arg = ParseResponse(response).msg,
                          !.resp = response]
          /\ UNCHANGED <<cache, objects, desc>>
    \/ \E response \in Responses :
          /\ lastOp' = [Outcome("check_version", NoHandle,
                                CheckVersion(response).res) EXCEPT
                          !.arg = CheckVersion(response).msg,
                          !.gets = 1,
                          !.req = [method |-> "GET", uri |-> BaseUri \o "api",
                                   body |-> <<>>],
                          !.resp = response]
          /\ UNCHANGED <<cache, objects, desc>>

SpecLims == Init /\ [][NextLims]_vars

\* the query key a named filter is sent under
FilterKey ==
    (<<"n", "a", "m", "e">> :> <<"n", "a", "m", "e">>)
    @@ (<<"l", "a", "s", "t", "_", "m", "o", "d", "i", "f", "i", "e", "d">>
           :> <<"l", "a", "s", "t", "-", "m", "o", "d", "i", "f", "i", "e", "d">>)
    @@ (<<"s", "t", "a", "r", "t", "_", "i", "n", "d", "e", "x">>
           :> <<"s", "t", "a", "r", "t", "-", "i", "n", "d", "e", "x">>)

\* the keys the query map of a call must have, and the keys among them that
\* come from the named filters, the udf dictionary and the udt dictionary
ExpectedKeys(in) ==
    {FilterKey[k] : k \in {k \in DOMAIN in.kwargs : in.kwargs[k] # PyNone}}
        \cup {<<"u", "d", "f", ".">> \o k : k \in DOMAIN in.udf}
        \cup (IF in.udtname # PyNone
              THEN {<<"u", "d", "t", ".", "n", "a", "m", "e">>} ELSE {})
        \cup {<<"u", "d", "t", ".">> \o k : k \in DOMAIN in.udt}

\* every filter but the UDT name is in the map under its key with its value
FiltersPresent(in, map) ==
    /\ DOMAIN map = ExpectedKeys(in)
    /\ \A k \in DOMAIN in.kwargs :
          in.kwargs[k] # PyNone => map[FilterKey[k]] = in.kwargs[k]
    /\ \A k \in DOMAIN in.udf : map[<<"u", "d", "f", ".">> \o k] = in.udf[k]
    /\ \A k \in DOMAIN in.udt : map[<<"u", "d", "t", ".">> \o k] = in.udt[k]

\* C21 as stated: the query map has exactly one entry per filter that is
\* not None, under the filter name with hyphens for underscores; 'udf.k'
\* for each UDF filter k, 'udt.name' for a UDT name given, 'udt.k' for each
\* UDT filter k; each with the value supplied, and no other key.
C21_ParamsAsStated ==
    lastOp.op = "get_labs" =>
        /\ FiltersPresent(lastOp.resp, lastOp.val)
        /\ lastOp.resp.udtname # PyNone =>
              lastOp.val[<<"u", "d", "t", ".", "n", "a", "m", "e">>]
                  = lastOp.resp.udtname

\* C21, amended: as stated, but the UDT name is in the map under 'udt.name'
\* only when no UDT filter is itself named 'name'; such a filter takes the
\* key 'udt.name' with its own value.
C21_ParamsTranslation ==
    lastOp.op = "get_labs" =>
        /\ FiltersPresent(lastOp.resp, lastOp.val)
        /\ (/\ lastOp.resp.udtname # PyNone
            /\ <<"n", "a", "m", "e">> \notin DOMAIN lastOp.resp.udt)
           => lastOp.val[<<"u", "d", "t", ".", "n", "a", "m", "e">>]
                  = lastOp.resp.udtname

\* a call with a filter that is None, filters that are given, one of them
\* with an underscore in its name, a UDF filter, a UDT name and a UDT filter
C21_Witness ==
    /\ lastOp.op = "get_labs"
    /\ lastOp.resp.kwargs = (<<"n", "a", "m", "e">> :> PyNone)
           @@ (<<"l", "a", "s", "t", "_", "m", "o", "d", "i", "f", "i", "e", "d">>
                  :> PyStr("x"))
           @@ (<<"s", "t", "a", "r", "t", "_", "i", "n", "d", "e", "x">> :> PyStr("x"))
    /\ lastOp.resp.udf = (<<"f", "1">> :> PyStr("y"))
    /\ lastOp.resp.udtname = PyStr("T")
    /\ lastOp.resp.udt = (<<"T", ".", "f", "1">> :> PyStr("x"))
    /\ Cardinality(DOMAIN lastOp.val) = 5
    /\ <<"l", "a", "s", "t", "-", "m", "o", "d", "i", "f", "i", "e", "d">>
           \in DOMAIN lastOp.val

\* C22: parse_response returns the parsed document for every status from
\* 200 to 299 and raises an error for every other status: an error with the
\* status code and the text of the message element (and of the
\* suggested-actions element, when there is one) when the body has a
\* message element, a generic HTTP error of the status code when it has not.
C22_TransportContract ==
    lastOp.op = "parse_response" =>
        LET response == lastOp.resp IN
        /\ (response.status >= 200 /\ response.status < 300) => lastOp.res = "ok"
        /\ ~(response.status >= 200 /\ response.status < 300) =>
              /\ lastOp.res = "HTTPError"
              /\ (response.parses /\ response.message # <<>>) =>
                    lastOp.arg = ToString(response.status) \o ": "
                                   \o response.message[1]
                                   \o (IF response.suggested = <<>> THEN ""
                                       ELSE " " \o response.suggested[1])

\* C23: check_version succeeds exactly when a version element of the
\* versions document the server answers with has the major attribute equal
\* to VERSION, and raises the version-mismatch error otherwise.  (The
\* answer is a 200 response whose root is ver:versions and whose version
\* elements all carry a major attribute.)
C23_VersionCheck ==
    (/\ lastOp.op = "check_version"
     /\ lastOp.resp.status = 200
     /\ lastOp.resp.parses
     /\ lastOp.resp.tag = "ver:versions"
     /\ \A i \in 1..Len(lastOp.resp.versions) : lastOp.resp.versions[i] # "")
    => /\ lastOp.res = "ok" <=>
             \E i \in 1..Len(lastOp.resp.versions) : lastOp.resp.versions[i] = "v1"
       /\ lastOp.res # "ok" =>
             lastOp.res = "ValueError" /\ lastOp.arg = "version mismatch"
       /\ lastOp.gets = 1

\* the server advertised two versions, the second being the client's, and
\* the check succeeded
C23_Witness ==
    /\ lastOp.op = "check_version"
    /\ lastOp.resp.status = 200
    /\ lastOp.resp.versions = <<"v2", "v1">>
    /\ lastOp.res = "ok"

(***************************************************************************)
(* PlacementDictionaryDescriptor, InputOutputMapList, and                  *)
(* Container.get_placements.  A placement element is Ref("placement", uri  *)
(* of the artifact, text of its value child); an input-output-map element  *)
(* is IoMap(input, output), each the input or output child: <<>> when the  *)
(* element has none, or one record with the attributes uri and             *)
(* post-process-uri ("" for an attribute that is absent) and the           *)
(* parent-process child (<<>> for none, or its uri attribute, "" when that *)
(* is absent).  The attributes get_dict copies as strings (limsid,         *)
(* output-type, output-generation-type) are left out.  A value of the      *)
(* descriptor keeps no reference to an element of the tree.                *)
(***************************************************************************)
IoMap(input, output) ==
    [tag |-> "input-output-map", uri |-> "", value |-> "",
     input |-> input, output |-> output]

\* InputOutputMapList.get_dict(lims, node): None for no node; otherwise an
\* Artifact for the attributes uri and post-process-uri that are present
\* (built in each round of the loop over the string keys, the same objects
\* every time), then a Process for the parent-process child, whose uri
\* attribute is read without a guard
get_dict(node, c, os) ==
    IF node = <<>>
    THEN [cache |-> c, objects |-> os, value |-> <<>>, res |-> "ok"]
    ELSE LET \* the object built for one attribute, None for an absent one
             Made(r, st) == [cache |-> r.cache, objects |-> r.objects,
                             hs |-> Append(st.hs, r.h)]
             Build(kind, uri, st) ==
                 IF uri = "" THEN [st EXCEPT !.hs = Append(@, NoHandle)]
                 ELSE Made(EntityNew(kind, uri, st.cache, st.objects), st)
             Result(n, st) ==
                 [cache   |-> st.cache,
                  objects |-> st.objects,
                  value   |-> <<[uri |-> st.hs[1], post |-> st.hs[2],
                                 parent |-> st.hs[3]]>>,
                  res     |-> IF n.parent = <<"">> THEN "KeyError" ELSE "ok"]
             Parent(n, st) ==
                 Build("Process",
                       IF n.parent = <<>> THEN "" ELSE n.parent[1], st)
         IN Result(node[1],
                   Parent(node[1],
                          Build("Artifact", node[1].post,
                                Build("Artifact", node[1].uri,
                                      [cache |-> c, objects |-> os,
                                       hs |-> <<>>]))))

\* the loop of InputOutputMapList.__get__ over the input-output-map
\* elements: the pair (input, output) of each is appended to the value; an
\* exception ends the loop and leaves the pairs appended before
RECURSIVE IoMapValues(_, _, _)
IoMapValues(nodes, c, os) ==
    IF nodes = <<>>
    THEN [cache |-> c, objects |-> os, value |-> <<>>, res |-> "ok"]
    ELSE LET Cons(pair, rest) == [rest EXCEPT !.value = <<pair>> \o @]
             Rest(input, output) ==
                 IF output.res # "ok" THEN [output EXCEPT !.value = <<>>]
                 ELSE Cons(<<input.value, output.value>>,
                           IoMapValues(Tail(nodes), output.cache, output.objects))
             Output(input) ==
                 IF input.res # "ok" THEN [input EXCEPT !.value = <<>>]
                 ELSE Rest(input, get_dict(Head(nodes).output,
                                           input.cache, input.objects))
         IN Output(get_dict(Head(nodes).input, c, os))

\* the body of the except branch after instance.get(): the value computed
\* from root, with the cache and the objects after the constructions
ProjectionValue(attr, root, c, os) ==
    IF attr = "placements"
    THEN LET nodes == SelectSeq(root.refs, LAMBDA x : x.tag = "placement")
             r     == ConstructAll("Artifact",
                                   [i \in 1..Len(nodes) |-> nodes[i].uri], c, os)
             keys  == {nodes[i].value : i \in 1..Len(nodes)}
             \* self.value[key] = Artifact(...): the last node of a key stays
             last(k) == CHOOSE i \in 1..Len(nodes) :
                           /\ nodes[i].value = k
                           /\ \A j \in 1..Len(nodes) : nodes[j].value = k => j <= i
         IN [cache |-> r.cache, objects |-> r.objects,
             value |-> [k \in keys |-> r.list[last(k)]], res |-> "ok"]
    ELSE IoMapValues(SelectSeq(root.refs, LAMBDA x : x.tag = "input-output-map"),
                     c, os)

\* PlacementDictionaryDescriptor.__get__ and InputOutputMapList.__get__:
\* container.placements, process.input_output_maps
ProjectionGet(h, attr, docs) ==
    /\ h \in Handles
    /\ attr \in {"placements", "input_output_maps"}
    /\ <<Obj(h).kind, attr>> \in Descriptors
    /\ LET dk == <<Obj(h).kind, attr>> IN
       IF desc[dk].set
       THEN \* self.value exists: it is returned as it is
            /\ lastOp' = [Outcome(attr, h, "ok") EXCEPT
                            !.dict = dk, !.val = desc[dk].value]
            /\ UNCHANGED <<cache, objects, desc>>
       ELSE \E doc \in Answers(Obj(h), FALSE, docs) :
              LET o == EntityGet(Obj(h), UriOf(h), FALSE, doc)
                  p == ProjectionValue(attr, o.root, cache,
                                       [objects EXCEPT ![h[1]][h[2]] = o])
              IN
              /\ NumObjects(p.objects) <= MaxHandles + 2
              /\ cache' = p.cache
              /\ objects' = p.objects
              /\ desc' = [desc EXCEPT ![dk] = [set |-> TRUE, instance |-> h,
                                               elems |-> <<>>, value |-> p.value]]
              /\ lastOp' = [WithGet(Outcome(attr, h, p.res), h, FALSE, doc)
                              EXCEPT !.dict = dk,
                                     !.val = IF p.res = "ok" THEN p.value
                                             ELSE PyNone]

\* Container.get_placements(): result = self.placements.copy();
\* self.lims.get_batch(result.values()); return result.  instances is
\* result.values(), in the order the dictionary gives them; answer picks
\* the response to the batch retrieve out of BatchAnswers
GetPlacements(h, docs, reversed) ==
    /\ h \in Handles
    /\ Obj(h).kind = "Container"
    /\ LET dk    == <<"Container", "placements">>
           first == ~desc[dk].set
       IN
       \E doc \in (IF first THEN Answers(Obj(h), FALSE, docs) ELSE {DocPlain}) :
          LET o  == IF first THEN EntityGet(Obj(h), UriOf(h), FALSE, doc) ELSE Obj(h)
              p  == IF first
                    THEN ProjectionValue("placements", o.root, cache,
                                         [objects EXCEPT ![h[1]][h[2]] = o])
                    ELSE [cache |-> cache, objects |-> objects,
                          value |-> desc[dk].value]
              ds == IF first
                    THEN [desc EXCEPT ![dk] = [set |-> TRUE, instance |-> h,
                                               elems |-> <<>>, value |-> p.value]]
                    ELSE desc
              out == [(IF first THEN WithGet(Outcome("get_placements", h, "ok"),
                                             h, FALSE, doc)
                       ELSE Outcome("get_placements", h, "ok"))
                        EXCEPT !.dict = dk, !.val = p.value]
              keys == DOMAIN p.value
          IN
          IF keys = {}
          THEN \* get_batch([]) returns at once
               /\ cache' = p.cache
               /\ objects' = p.objects
               /\ desc' = ds
               /\ lastOp' = out
          ELSE \E instances \in {l \in [1..Cardinality(keys) -> {p.value[k] : k \in keys}] :
                                   \A k \in keys : \E i \in DOMAIN l : l[i] = p.value[k]} :
                 LET klass == p.objects[instances[1][1]][instances[1][2]].kind
                     n     == Len(instances)
                     order == IF reversed THEN [i \in 1..n |-> n + 1 - i]
                              ELSE [i \in 1..n |-> i]
                     frags == [i \in 1..n |->
                                 [uri |-> instances[order[i]][1],
                                  doc |-> BatchDocs(n, order)[i]]]
                     r     == AttachAll(klass, frags, p.cache, p.objects, ds)
                 IN
                 /\ NumObjects(r.objects) <= MaxHandles + 2
                 /\ cache' = r.cache
                 /\ objects' = r.objects
                 /\ desc' = r.desc
                 /\ lastOp' = [out EXCEPT
                                 !.list = r.list,
                                 !.resp = frags,
                                 !.posts = 1,
                                 !.req = [method |-> "POST",
                                          uri    |-> GetUri(ResourcePath[klass],
                                                            "batch/retrieve"),
                                          body   |-> [i \in 1..n |-> instances[i][1]]]]

\* LocationDescriptor.__get__: artifact.location.  The location element
\* of a tree is the reference Ref("location", uri, value), uri the uri of
\* its container child and value the text of its value child; root.find
\* takes the first one, and None has no attribute find when there is none.
LocationRead(h, docs) ==
    /\ h \in Handles
    /\ Obj(h).kind = "Artifact"
    /\ \E doc \in Answers(Obj(h), FALSE, docs) :
        LET o     == EntityGet(Obj(h), UriOf(h), FALSE, doc)
            os    == [objects EXCEPT ![h[1]][h[2]] = o]
            found == SelectSeq(o.root.refs, LAMBDA r : r.tag = "location")
            out   == [WithGet(Outcome("location", h, "ok"), h, FALSE, doc)
                        EXCEPT !.arg = "location"]
        IN
        IF found = <<>>
        THEN /\ cache' = cache
             /\ objects' = os
             /\ lastOp' = [out EXCEPT !.res = "AttributeError"]
        ELSE LET r == EntityNew("Container", found[1].uri, cache, os) IN
             /\ NumObjects(r.objects) <= MaxHandles + 2
             /\ cache' = r.cache
             /\ objects' = r.objects
             /\ lastOp' = [out EXCEPT
                             !.list = <<r.h>>,
                             !.val = IF found[1].value = "" THEN PyNone
                                     ELSE PyStr(found[1].value)]
    /\ UNCHANGED desc

\* the documents the GET of a container or of a process is answered with:
\* no placement; two placements; one placement and two input-output maps,
\* the first with a post-process-uri and a parent process, the second
\* without output
ProjectionDocs ==
    {DocPlain, DocRich,
     Doc(NoScalars,
         <<Ref("placement", ArtifactUri("1"), "A:1"),
           IoMap(<<[uri |-> ArtifactUri("2"), post |-> ArtifactUri("1"),
                    parent |-> <<GetUri(ResourcePath["Process"], "1")>>]>>,
                 <<[uri |-> ArtifactUri("1"), post |-> "", parent |-> <<>>]>>),
           IoMap(<<[uri |-> ArtifactUri("1"), post |-> "", parent |-> <<>>]>>,
                 <<>>)>>,
         <<>>, <<>>)}

\* a session over two containers, a process and the artifacts placed in
\* the containers
NextContainer ==
    \/ \E i \in Ids : Construct("Container", GetUri(ResourcePath["Container"], i), TRUE)
    \/ Construct("Process", GetUri(ResourcePath["Process"], "1"), TRUE)
    \/ Construct("Artifact", ArtifactUri("1"), TRUE)
    \/ \E h \in HandleRefs, attr \in {"placements", "input_output_maps"} :
          ProjectionGet(h, attr, ProjectionDocs)
    \/ \E h \in HandleRefs, reversed \in BOOLEAN :
          GetPlacements(h, ProjectionDocs, reversed)
    \/ \E h \in HandleRefs :
          /\ h \in Handles
          /\ Obj(h).kind \in {"Container", "Process"}
          /\ Get(h, TRUE, {DocPlain})
    \/ \E h \in HandleRefs :
          /\ h \in Handles
          /\ Obj(h).kind = "Container"
          /\ UdfDescriptorGet(h, "udf", ProjectionDocs)
    \/ \E h \in HandleRefs :
          LocationRead(h, {DocPlain,
                           Doc([NoScalars EXCEPT !["name"] = <<"n1">>],
                               <<Ref("location",
                                     GetUri(ResourcePath["Container"], "1"),
                                     "A:1")>>,
                               <<>>, <<>>)})

SpecContainer == Init /\ [][NextContainer]_vars

\* C24: the descriptors keep no state of an entity.  Reading udf,
\* placements or input_output_maps on an entity returns a view built from
\* the tree of that entity, whatever was read before on another entity of
\* the same class.
C24_NoPerEntityState ==
    [][(/\ lastOp'.op \in {"udf", "placements", "input_output_maps"}
        /\ lastOp'.res = "ok")
       => desc'[lastOp'.dict].instance = lastOp'.h]_vars

\* the labels of the placement elements of a tree
PlacementLabels(root) ==
    {root.refs[i].value : i \in {j \in 1..Len(root.refs) : root.refs[j].tag = "placement"}}

\* C28: get_placements on a container whose tree has at least one placement
\* returns a mapping whose keys are exactly the labels of the placements of
\* the container and whose values are the objects for the artifacts
\* referenced, sends exactly one POST to the batch retrieve of the
\* artifacts with all of them, and afterwards every artifact returned has
\* its root set.
C28_GetPlacements ==
    [][(/\ lastOp'.op = "get_placements"
        /\ RootOf(objects', lastOp'.h).loaded
        /\ PlacementLabels(RootOf(objects', lastOp'.h)) # {})
       => LET root == RootOf(objects', lastOp'.h)
              val  == lastOp'.val
          IN
          /\ lastOp'.res = "ok"
          /\ DOMAIN val = PlacementLabels(root)
          /\ \A i \in 1..Len(root.refs) :
                root.refs[i].tag = "placement" =>
                   \E j \in 1..Len(root.refs) :
                      /\ root.refs[j].tag = "placement"
                      /\ root.refs[j].value = root.refs[i].value
                      /\ val[root.refs[i].value]
                            = <<root.refs[j].uri, cache'[root.refs[j].uri]>>
          /\ lastOp'.posts = 1
          /\ lastOp'.req.method = "POST"
          /\ lastOp'.req.uri = GetUri("artifacts", "batch/retrieve")
          /\ {lastOp'.req.body[i] : i \in 1..Len(lastOp'.req.body)}
                = {val[k][1] : k \in DOMAIN val}
          /\ \A k \in DOMAIN val : RootOf(objects', val[k]).loaded]_vars

\* C29: the placement dictionary and the input/output-map list of an
\* entity are computed once, at the first access on that entity, and kept:
\* a read on an entity whose value the descriptor keeps returns that value
\* without a request and without a change of any object, also after a
\* forced reload has replaced the tree; a read on an entity for which no
\* value was computed yet loads the entity if needed and returns the value
\* computed from the tree of that entity.
C29_ProjectionCached ==
    [][lastOp'.op \in {"placements", "input_output_maps"} =>
          LET dk == lastOp'.dict
              h  == lastOp'.h
          IN
          IF desc[dk].set /\ desc[dk].instance = h
          THEN /\ lastOp'.val = desc[dk].value
               /\ lastOp'.gets = 0
               /\ objects' = objects
          ELSE /\ RootOf(objects', h).loaded
               /\ lastOp'.val = ProjectionValue(lastOp'.op, RootOf(objects', h),
                                                cache', objects').value]_vars

(***************************************************************************)
(* A fetch that fails.  Entity.get assigns self.root the value lims.get    *)
(* returns; when parse_response raises, lims.get raises and the assignment *)
(* does not take place.  A session over two containers: their scalar      *)
(* attributes, their placements and their udf are read, and a GET is       *)
(* answered with a document or with a response parse_response rejects.     *)
(***************************************************************************)
\* Entity.get(force) when the response makes parse_response raise
GetFailing(h, force, response) ==
    /\ h \in Handles
    /\ Fetches(Obj(h), force)
    /\ ParseResponse(response).res # "ok"
    /\ lastOp' = [Outcome("get", h, ParseResponse(response).res) EXCEPT
                    !.force = force, !.gets = 1, !.failed = 1,
                    !.arg = ParseResponse(response).msg,
                    !.req = GetReq(UriOf(h)), !.resp = <<response>>]
    /\ UNCHANGED <<cache, objects, desc>>

\* StringDescriptor.__get__ and its subclasses when instance.get() raises:
\* the exception leaves __get__ before the root is looked at
ScalarReadFailing(h, tag, response) ==
    /\ h \in Handles
    /\ tag \in DescriptorTags(Obj(h).kind)
    /\ Fetches(Obj(h), FALSE)
    /\ ParseResponse(response).res # "ok"
    /\ lastOp' = [Outcome("read", h, ParseResponse(response).res) EXCEPT
                    !.arg = tag, !.gets = 1, !.failed = 1,
                    !.req = GetReq(UriOf(h)), !.resp = <<response>>]
    /\ UNCHANGED <<cache, objects, desc>>

\* UdfDictionaryDescriptor.__get__, PlacementDictionaryDescriptor.__get__
\* and InputOutputMapList.__get__ when the descriptor has no value and
\* instance.get() raises: the exception leaves __get__ before self.value
\* is assigned
DescriptorGetFailing(h, attr, response) ==
    /\ h \in Handles
    /\ attr \in {"udf", "udt", "placements", "input_output_maps"}
    /\ <<Obj(h).kind, attr>> \in Descriptors
    /\ ~desc[<<Obj(h).kind, attr>>].set
    /\ Fetches(Obj(h), FALSE)
    /\ ParseResponse(response).res # "ok"
    /\ lastOp' = [Outcome(IF attr \in {"udf", "udt"} THEN "udf" ELSE attr, h,
                          ParseResponse(response).res) EXCEPT
                    !.dict = <<Obj(h).kind, attr>>,
                    !.arg = ParseResponse(response).msg,
                    !.gets = 1, !.failed = 1,
                    !.req = GetReq(UriOf(h)), !.resp = <<response>>]
    /\ UNCHANGED <<cache, objects, desc>>

\* two containers whose GETs are answered with a document or with a
\* response that parse_response rejects (the responses without versions
\* and without a suggested action)
NextFetch ==
    LET Containers == {h \in Handles : Obj(h).kind = "Container"}
        responses  == {r \in Responses : r.versions = <<>> /\ r.suggested = <<>>}
    IN
    \/ \E i \in Ids, byId \in BOOLEAN :
          Construct("Container", GetUri(ResourcePath["Container"], i), byId)
    \/ \E h \in Containers, force \in BOOLEAN : Get(h, force, Docs)
    \/ \E h \in Containers, tag \in ScalarTags : ScalarRead(h, tag, Docs)
    \/ \E h \in Containers, force \in BOOLEAN, response \in responses :
          GetFailing(h, force, response)
    \/ \E h \in Containers, tag \in ScalarTags, response \in responses :
          ScalarReadFailing(h, tag, response)
    \/ \E h \in Containers : ProjectionGet(h, "placements", ProjectionDocs)
    \/ \E h \in Containers : UdfDescriptorGet(h, "udf", Docs)
    \/ \E h \in Containers, attr \in {"placements", "udf"},
          response \in responses :
          DescriptorGetFailing(h, attr, response)

SpecFetch == Init /\ [][NextFetch]_vars

\* C31: a failed fetch leaves the handle as it was.  When the GET sent by
\* get() (forced, or lazy from get() or from the read of a scalar
\* attribute, of placements or of udf) fails, the
\* call raises after exactly one GET to the uri of the object, no object
\* changes (the root is still unset after a first load and still the old
\* tree after a forced reload), the object is still the one registered
\* under its uri, and it fetches again when it is still unloaded: the
\* attribute read that follows the failure on the unloaded object (a
\* scalar attribute, placements or udf) sends one GET to its uri, and a
\* constructor call for the uri returns the same object.
C31_FailedFetch ==
    [][/\ (lastOp'.op \in {"get", "read", "placements", "udf"}
              /\ lastOp'.failed # 0) =>
            LET h == lastOp'.h IN
            /\ h \in Handles
            /\ lastOp'.res # "ok"
            /\ lastOp'.gets = 1 /\ lastOp'.puts = 0 /\ lastOp'.posts = 0
            /\ lastOp'.req = GetReq(UriOf(h))
            /\ objects' = objects
            /\ cache' = cache
            /\ cache'[h[1]] = h[2]
            /\ desc' = desc
            /\ (~RootOf(objects, h).loaded =>
                    Fetches(objects'[h[1]][h[2]], FALSE))
       /\ (/\ lastOp.failed # 0
           /\ lastOp'.op \in {"read", "placements", "udf"}
           /\ lastOp'.h = lastOp.h
           /\ ~RootOf(objects, lastOp.h).loaded) =>
            /\ lastOp'.gets = 1
            /\ lastOp'.req = GetReq(UriOf(lastOp.h))
       /\ (lastOp'.op \in ConstructOps /\ lastOp.failed # 0
              /\ lastOp'.h[1] = lastOp.h[1]) =>
            /\ lastOp'.h = lastOp.h
            /\ objects' = objects
      ]_vars

(***************************************************************************)
(* Properties of the UDF dictionary across a rejected or repeated set.     *)
(***************************************************************************)
\* C32: a rejected set leaves the dictionary unchanged.  When __setitem__
\* is called with a value of the wrong type for the element of the key
\* (a value other than None), or with a value of no supported kind for a
\* key the dictionary does not know, the call raises and _lookup, _elems
\* and the tree are as before: a following get of the key returns what it
\* returned before, or raises KeyError as before.
C32_RejectedSetUnchanged ==
    [][lastOp'.op = "setitem" =>
          LET dk   == lastOp'.dict
              d    == desc[dk]
              key  == lastOp'.arg
              v    == lastOp'.val
              root == RootOf(objects, d.instance)
              i    == FindElem(d, root, key)
              rejected ==
                  \/ /\ i # 0
                     /\ TextFor(Lower(ElemOf(d.elems[i], root).type), v).res
                            = "TypeError"
                  \/ /\ i = 0
                     /\ d.lookup[key] = Missing
                     /\ InferType(v) = ""
          IN
          (rejected /\ v # PyNone) =>
             /\ lastOp'.res # "ok"
             /\ desc'[dk].lookup[key] = d.lookup[key]
             /\ desc' = desc
             /\ objects' = objects]_vars

\* the keys of _lookup
LookupNames(d) == {k \in UdfKeys : d.lookup[k] # Missing}
\* the names of the elements of _elems
TrackedNames(d, root) ==
    {ElemOf(d.elems[i], root).name : i \in 1..Len(d.elems)}
\* _lookup, _elems and the region of the tree hold the same names
Coherent(d, root) ==
    /\ LookupNames(d) = RegionNames(root, d)
    /\ LookupNames(d) = TrackedNames(d, root)

\* C33: coherence of the decoded cache and the tree.  A set, delete or
\* clear that succeeds on a dictionary whose _lookup, _elems and region of
\* the tree hold the same names leaves them holding the same names.
C33_CacheTreeCoherence ==
    [][(/\ lastOp'.op \in {"setitem", "delitem", "clear"}
        /\ lastOp'.res = "ok"
        /\ Coherent(desc[lastOp'.dict],
                    RootOf(objects, desc[lastOp'.dict].instance)))
       => Coherent(desc'[lastOp'.dict],
                   RootOf(objects', desc[lastOp'.dict].instance))]_vars

\* the number of udf:field elements named key in the region of a dictionary
CountNamed(root, d, key) ==
    LET fs == RegionFields(root, Truthy(d.udt)) IN
    Cardinality({i \in 1..Len(fs) : fs[i].name = key})

\* C34: field names stay unique in the tree.  A set leaves at most one
\* udf:field element of each name in the region of the dictionary that had
\* at most one, and a set of a key the dictionary does not know to a value
\* of a supported kind leaves exactly one element of that name, which the
\* dictionary tracks, so that the next set of the key finds and updates
\* that element.
C34_FieldNamesUnique ==
    [][lastOp'.op = "setitem" =>
          LET dk   == lastOp'.dict
              d    == desc[dk]
              key  == lastOp'.arg
              root == RootOf(objects, d.instance)
              d2   == desc'[dk]
              root2 == RootOf(objects', d.instance)
          IN
          /\ \A k \in UdfKeys :
                CountNamed(root, d, k) <= 1 => CountNamed(root2, d2, k) <= 1
          /\ (/\ lastOp'.val \in SupportedValues
              /\ d.lookup[key] = Missing
              /\ FindElem(d, root, key) = 0
              /\ CountNamed(root, d, key) = 0)
             => /\ lastOp'.res = "ok"
                /\ CountNamed(root2, d2, key) = 1
                /\ FindElem(d2, root2, key) # 0]_vars

(***************************************************************************)
(* Kinds of the objects of the session.                                    *)
(***************************************************************************)
\* C35: kind consistency of the identity map.  The object a constructor
\* call of a class returns is of that class, whether the call is made
\* directly, by a nested reference descriptor with its klass, by a listing
\* with its klass or by get_batch with the class of the instances, and
\* whatever class the uri was first constructed with.
C35_KindConsistency ==
    [][/\ lastOp'.op \in ConstructOps =>
            objects'[lastOp'.h[1]][lastOp'.h[2]].kind = lastOp'.arg
       /\ lastOp'.op \in {"list", "batch"} =>
            \A i \in 1..Len(lastOp'.list) :
                objects'[lastOp'.list[i][1]][lastOp'.list[i][2]].kind
                    = lastOp'.arg
       /\ (lastOp'.op = "nested" /\ lastOp'.res = "ok") =>
            \A i \in 1..Len(lastOp'.list) :
                objects'[lastOp'.list[i][1]][lastOp'.list[i][2]].kind
                    = RefDescriptor[objects'[lastOp'.h[1]][lastOp'.h[2]].kind].klass
      ]_vars

====
